---- MODULE Spec2Model ----
(***************************************************************************)
(* State-machine model of the BattleShipGame session engine.               *)
(*                                                                         *)
(* The modelled program is the GameProvider of                             *)
(* src/src/contexts/GameContext.tsx (first revision in the file, lines     *)
(* 1-372) together with the pure targeting functions of                    *)
(* src/src/utils/useAiAttackLogic.tsx.                                     *)
(*                                                                         *)
(* React specifics that the model keeps:                                   *)
(*  - gameState is the provider's state; every setGameState(updater) is    *)
(*    applied to the latest state, in call order;                          *)
(*  - gameStateRef.current is a snapshot that is only refreshed by the     *)
(*    useEffect that runs after a render (action RefreshRef), so           *)
(*    handleAttack may read a snapshot that is older than gameState;       *)
(*  - an updater may run before setGameState returns (eager evaluation)    *)
(*    or during the next render; the values handleAttack returns are the   *)
(*    closure variables as they are when the call returns;                 *)
(*  - an exception thrown by an updater tears the application down         *)
(*    (appError), after which no operation runs.                           *)
(*                                                                         *)
(* The 10x10 grid and the five-ship fleet are scaled down (BoardSize,      *)
(* ALL_SHIPS) so that the state space can be enumerated.                   *)
(*                                                                         *)
(* The modelled program also covers the placement functions of            *)
(* src/src/lib/boardUtils.tsx and of the cell-based revision in            *)
(* src/unnamed/part_004 (lines 275-484), the placement screen of           *)
(* src/src/components/ShipPlacement.tsx (lines 397-1143) and the game      *)
(* screen of src/src/components/GameScreen.tsx (lines 281-516).            *)
(*                                                                         *)
(* The specifications share one list of variables:                         *)
(*  - Spec: a session from the construction of the provider, driven        *)
(*    through seat selection, placement, combat and reset, for the seat    *)
(*    configurations of PlayerConfigs;                                     *)
(*  - SpecMulti: the same actions started at the beginning of combat and   *)
(*    at a late position of the games of three and four seats;             *)
(*  - SpecAi: an AI seat firing at one opponent board, every shot chosen   *)
(*    by getAiAttackCoordinate;                                            *)
(*  - SpecAiAdjacent: the same on a board whose two ships touch;           *)
(*  - SpecTrial: the placement functions applied to bounded inputs;        *)
(*  - SpecPlacement: the handlers of the placement screen;                 *)
(*  - SpecScreen: the handlers of the game screen, from the start of       *)
(*    combat;                                                              *)
(*  - SpecDriver: the game screen of src/unnamed/part_008, which judges    *)
(*    the winner itself;                                                   *)
(*  - SpecRecorded: the provider revision of GameContext.tsx lines         *)
(*    692-893, whose handleAttack records shots on the attacker's board;   *)
(*  - Spec010: the game screen of src/unnamed/part_010, which has no       *)
(*    attack flag, with its delayed callbacks in flight (aiTurns);         *)
(*  - SpecLedger: the provider revision of GameContext.tsx lines           *)
(*    393-569, whose handleAttack refuses a shot by the attacker's record; *)
(*  - SpecOwnTurn: the placement screen of ShipPlacement.tsx lines 13-306, *)
(*    which keeps its own placement turn, over that provider;              *)
(*  - SpecAiPair: the AI turns of SpecAi on the boards of every layout;    *)
(*  - SpecBroadcast: the provider of src/unnamed/part_002, whose           *)
(*    handleAttack fires one coordinate at every opponent;                 *)
(*  - SpecShared: the attack updater with the cell objects it shares with  *)
(*    the previous state;                                                  *)
(*  - SpecFleet: the provider revision of GameContext.tsx lines 759-937,   *)
(*    whose setPlayerBoardShips builds the grid with placeShipOnBoard.     *)
(***************************************************************************)
EXTENDS Integers, Sequences, FiniteSets, TLC

\* ------------------------------------------------------------------------
\* Bounds of the model
\* ------------------------------------------------------------------------
\* Side of the square grid (10 in the source).
BoardSize == 2
\* Largest number of handleAttack calls explored in one game.
MaxShots == 3
\* Largest number of handleAttack calls between two runs of the
\* gameStateRef effect.
MaxPending == 2
\* Side of the boards handed to the targeting functions (10 in the source).
AiGrid == 3
\* Draws a random loop makes before it gives up (500 in placeShipRandomly,
\* 5000 in handleRandomPlacement, 10000 in generateRandomShipPlacement, 100
\* in the game screen's handleAIAttack).
maxAttempts == 2

\* ------------------------------------------------------------------------
\* Data model (src/src/models/types.tsx)
\* ------------------------------------------------------------------------
\* Number of seats of the players array.
NumPlayers == 4
\* Value of winnerId / currentPlayerTurnId when no seat is named
\* (null for winnerId, -1 for currentPlayerTurnId).
NoSeat == -1
\* Value of an absent string (undefined shipId / sunkShipId).
Undefined == ""

SeatIds == 0 .. (NumPlayers - 1)
Axis == 0 .. (BoardSize - 1)
Coordinate == [x : Axis, y : Axis]
Coord(cx, cy) == [x |-> cx, y |-> cy]

\* The fleet every seat places: ids and sizes, in placement order.
ALL_SHIPS ==
  << [id |-> "cruiser-0", size |-> 2],
     [id |-> "destroyer-0", size |-> 1] >>

\* A ship placed on a board, not yet fired upon.
PlacedShip(def, start, orientation) ==
  [ id |-> def.id, definition |-> def, start |-> start,
    orientation |-> orientation, hits |-> << >>, isSunk |-> FALSE ]

\* i-th coordinate (0-based) of a ship, as every loop over a ship computes it.
ShipCell(ship, i) ==
  IF ship.orientation = "horizontal"
    THEN [x |-> ship.start.x + i, y |-> ship.start.y]
    ELSE [x |-> ship.start.x, y |-> ship.start.y + i]

\* The coordinates a ship occupies.
ShipCoords(ship) == { ShipCell(ship, i) : i \in 0 .. (ship.definition.size - 1) }

\* ------------------------------------------------------------------------
\* Board utilities (src/src/lib/boardUtils.tsx)
\* ------------------------------------------------------------------------
isCoordinateInBounds(c) ==
  c.x >= 0 /\ c.x < BoardSize /\ c.y >= 0 /\ c.y < BoardSize

\* The cell grid of createEmptyBoard: every cell empty, no shipId.
createEmptyBoard == [c \in Coordinate |-> [status |-> "empty", shipId |-> Undefined]]

\* One ship written into a grid: each in-bounds cell becomes 'ship'.
RECURSIVE WriteShip(_, _, _)
WriteShip(cells, ship, i) ==
  IF i >= ship.definition.size THEN cells
  ELSE LET c == ShipCell(ship, i)
           next == IF isCoordinateInBounds(c)
                     THEN [cells EXCEPT ![c] = [status |-> "ship", shipId |-> ship.id]]
                     ELSE cells
       IN WriteShip(next, ship, i + 1)

\* updateCellsWithShips: the ships of the list written in order, unplaced
\* ships (start -1) skipped.
RECURSIVE updateCellsWithShips(_, _)
updateCellsWithShips(baseCells, placedShips) ==
  IF placedShips = << >> THEN baseCells
  ELSE LET ship == Head(placedShips)
           next == IF ship.start.x = -1 \/ ship.start.y = -1
                     THEN baseCells
                     ELSE WriteShip(baseCells, ship, 0)
       IN updateCellsWithShips(next, Tail(placedShips))

\* isValidPlacement without the comparison against the placed ships.
isValidPlacementInBounds(shipDef, start, orientation, existingPlacedShips) ==
  LET ship == PlacedShip(shipDef, start, orientation)
  IN \A i \in 0 .. (shipDef.size - 1) : isCoordinateInBounds(ShipCell(ship, i))

\* isValidPlacement: every cell of the ship in bounds and on no cell of an
\* already placed ship.
isValidPlacement(shipDef, start, orientation, existingPlacedShips) ==
  LET ship == PlacedShip(shipDef, start, orientation)
  IN \A i \in 0 .. (shipDef.size - 1) :
        /\ isCoordinateInBounds(ShipCell(ship, i))
        /\ \A k \in 1 .. Len(existingPlacedShips) :
              ShipCell(ship, i) \notin ShipCoords(existingPlacedShips[k])

\* getRandomCoordinate and getRandomOrientation (boardUtils.tsx 192-203):
\* the values one draw can produce.
getRandomCoordinate == Coordinate
getRandomOrientation == {"horizontal", "vertical"}

\* placeShipRandomly, from the given attempt count on.  Its results are
\* sequences: << ship >> for a returned ship, << >> for null.  A draw the
\* validator accepts is returned; a rejected draw leads to the next attempt;
\* the loop ends with null when the attempts are used up.
RECURSIVE placeShipRandomlyFrom(_, _, _)
placeShipRandomlyFrom(shipToPlaceDef, currentPlacedShips, attempts) ==
  IF attempts >= maxAttempts THEN { << >> }
  ELSE
    LET accepted ==
          { << startCoord, orientation >> \in getRandomCoordinate \X getRandomOrientation :
              isValidPlacement(shipToPlaceDef, startCoord, orientation, currentPlacedShips) }
        rejected == (getRandomCoordinate \X getRandomOrientation) \ accepted
    IN { << PlacedShip(shipToPlaceDef, d[1], d[2]) >> : d \in accepted }
         \cup (IF rejected # {}
                 THEN placeShipRandomlyFrom(shipToPlaceDef, currentPlacedShips, attempts + 1)
                 ELSE {})

placeShipRandomly(shipToPlaceDef, currentPlacedShips) ==
  placeShipRandomlyFrom(shipToPlaceDef, currentPlacedShips, 0)

\* ------------------------------------------------------------------------
\* Cell-based board utilities (src/unnamed/part_004, lines 275-484)
\* ------------------------------------------------------------------------
isShipWithinBounds(start, size, orientation) ==
  IF orientation = "horizontal"
    THEN start.x + size <= BoardSize
    ELSE start.y + size <= BoardSize

\* isShipPlacementValid with the status test left out.
isShipPlacementValidBoundsOnly(boardCells, start, size, orientation) ==
  \A i \in 0 .. (size - 1) :
     LET x == IF orientation = "horizontal" THEN start.x + i ELSE start.x
         y == IF orientation = "vertical" THEN start.y + i ELSE start.y
     IN ~(x < 0 \/ x >= BoardSize \/ y < 0 \/ y >= BoardSize)

\* isShipPlacementValid: false at the first cell that is off the grid or has
\* status 'ship'.
isShipPlacementValid(boardCells, start, size, orientation) ==
  \A i \in 0 .. (size - 1) :
     LET x == IF orientation = "horizontal" THEN start.x + i ELSE start.x
         y == IF orientation = "vertical" THEN start.y + i ELSE start.y
     IN /\ ~(x < 0 \/ x >= BoardSize \/ y < 0 \/ y >= BoardSize)
        /\ boardCells[Coord(x, y)].status # "ship"

\* The loop of placeShipOnBoard from cell i on.  A cell is written only
\* inside the outer test of line 382 (x on the grid, y >= 0 and y >= 10) and
\* the inner test of line 385 (x and y on the grid).
RECURSIVE PlaceShipCells(_, _, _, _, _)
PlaceShipCells(cells, shipDefinition, start, orientation, i) ==
  IF i >= shipDefinition.size THEN cells
  ELSE LET x == IF orientation = "horizontal" THEN start.x + i ELSE start.x
           y == IF orientation = "vertical" THEN start.y + i ELSE start.y
           next ==
             IF x >= 0 /\ x < BoardSize /\ y >= 0 /\ y >= BoardSize
               THEN IF x >= 0 /\ x < BoardSize /\ y >= 0 /\ y < BoardSize
                      THEN [cells EXCEPT ![Coord(x, y)] =
                              [status |-> "ship", shipId |-> shipDefinition.id]]
                      ELSE cells
               ELSE cells
       IN PlaceShipCells(next, shipDefinition, start, orientation, i + 1)

placeShipOnBoard(initialCells, shipDefinition, start, orientation) ==
  PlaceShipCells(initialCells, shipDefinition, start, orientation, 0)

\* generateRandomShipPlacement, from the given attempt count on; results as
\* for placeShipRandomly.  The board the draw is tested on is rebuilt from
\* the placed ships by updateCellsWithShips (line 456).
RECURSIVE generateRandomShipPlacementFrom(_, _, _, _)
generateRandomShipPlacementFrom(boardId, shipDefinition, existingPlacedShips, attempts) ==
  IF attempts >= maxAttempts THEN { << >> }
  ELSE
    LET simulatedCells == updateCellsWithShips(createEmptyBoard, existingPlacedShips)
        accepted ==
          { << start, orientation >> \in Coordinate \X {"horizontal", "vertical"} :
              /\ isShipWithinBounds(start, shipDefinition.size, orientation)
              /\ isShipPlacementValid(simulatedCells, start, shipDefinition.size, orientation) }
        rejected == (Coordinate \X {"horizontal", "vertical"}) \ accepted
    IN { << PlacedShip(shipDefinition, d[1], d[2]) >> : d \in accepted }
         \cup (IF rejected # {}
                 THEN generateRandomShipPlacementFrom(boardId, shipDefinition,
                                                      existingPlacedShips, attempts + 1)
                 ELSE {})

generateRandomShipPlacement(boardId, shipDefinition, existingPlacedShips) ==
  generateRandomShipPlacementFrom(boardId, shipDefinition, existingPlacedShips, 0)

\* ------------------------------------------------------------------------
\* Inputs of the placement screen
\* ------------------------------------------------------------------------
\* The fleets the placement screen hands to setPlayerBoardShips: the ships
\* of ALL_SHIPS in order, each accepted by the placement validator.  Seats
\* with an even id place the cruiser horizontally, seats with an odd id
\* vertically, so that both orientations occur in every game.
FleetOf(playerId) ==
  IF playerId % 2 = 0
    THEN << PlacedShip(ALL_SHIPS[1], Coord(0, 0), "horizontal"),
            PlacedShip(ALL_SHIPS[2], Coord(0, 1), "horizontal") >>
    ELSE << PlacedShip(ALL_SHIPS[1], Coord(1, 0), "vertical"),
            PlacedShip(ALL_SHIPS[2], Coord(0, 0), "vertical") >>

\* The seat configurations the player selector is driven through in the
\* session specification (type per seat): two seats, adjacent or not, and a
\* single seat.
PlayerConfigs ==
  { << "human", "ai", "none", "none" >>,
    << "none", "human", "none", "ai" >>,
    << "human", "none", "none", "none" >> }

\* The configurations with three and four seats; their games are explored
\* by the multi-seat specification.
MultiSeatConfigs ==
  { << "human", "ai", "ai", "none" >>,
    << "human", "ai", "human", "ai" >> }

MakePlayers(types) == [i \in 1 .. NumPlayers |-> [id |-> i - 1, type |-> types[i]]]

\* ------------------------------------------------------------------------
\* Boards handed to the AI targeting functions
\* ------------------------------------------------------------------------
AiAxis == 0 .. (AiGrid - 1)
AiCoordinate == [x : AiAxis, y : AiAxis]

\* The value a targeting function returns when it indexes an empty list
\* (undefined): no coordinate of any board.
NoCoord == [x |-> -1, y |-> -1]

Difficulties == {"easy", "normal", "hard"}

\* The fleet of the boards handed to the targeting functions, scaled to
\* AiGrid: one ship long enough to take two hits without sinking.
AiShips ==
  << [id |-> "submarine-0", size |-> 3],
     [id |-> "destroyer-0", size |-> 2] >>

\* The placements of that fleet the boards are built from: both ships
\* horizontal, and both vertical.
AiLayouts ==
  << << PlacedShip(AiShips[1], Coord(0, 0), "horizontal"),
        PlacedShip(AiShips[2], Coord(1, 2), "horizontal") >>,
     << PlacedShip(AiShips[1], Coord(1, 0), "vertical"),
        PlacedShip(AiShips[2], Coord(2, 1), "vertical") >> >>

\* A PlayerBoard over the AiGrid grid holding the given ships, not yet
\* fired upon.
NewAiBoard(placedShips) ==
  [ playerId |-> 0,
    cells |-> [c \in AiCoordinate |->
                 LET on == { k \in 1 .. Len(placedShips) : c \in ShipCoords(placedShips[k]) }
                 IN IF on = {} THEN [status |-> "empty", shipId |-> Undefined]
                    ELSE [status |-> "ship", shipId |-> placedShips[CHOOSE k \in on : TRUE].id]],
    attackedCells |-> [c \in AiCoordinate |-> "none"],
    placedShips |-> placedShips ]

\* ------------------------------------------------------------------------
\* State
\* ------------------------------------------------------------------------
VARIABLES
  gameState,      \* the provider's GameState
  gameStateRef,   \* gameStateRef.current
  pending,        \* handleAttack calls since the ref effect last ran
  attackCalls,    \* handleAttack calls made in the current game
  lastAttack,     \* arguments and returned AttackResult of the last call
  appError,       \* an updater threw: the application is torn down
  aiBoard,        \* the opponent board the targeting functions are asked about
  placement,      \* local state of the ship placement screen
  trial,          \* arguments and result of the last placement function applied
  isAttackOngoing, \* the game screen's flag: a shot is being resolved
  aiTurns         \* the aiAttack closures in flight, each with its position

gameVars == << gameState, gameStateRef, pending, attackCalls, lastAttack, appError >>

vars == << gameState, gameStateRef, pending, attackCalls, lastAttack, appError, aiBoard,
          placement, trial, isAttackOngoing, aiTurns >>

\* ------------------------------------------------------------------------
\* Helpers over a GameState
\* ------------------------------------------------------------------------
\* players.filter(p => p.type !== 'none')
ActivePlayers(gs) == SelectSeq(gs.players, LAMBDA p : p.type # "none")

\* Set of ids of the active seats.
ActiveIds(gs) == { gs.players[i].id : i \in { j \in 1 .. NumPlayers : gs.players[j].type # "none" } }

HasBoard(gs, p) == p \in DOMAIN gs.playerBoards

\* checkAllShipsSunk(playerBoard)
checkAllShipsSunk(board) ==
  \A k \in 1 .. Len(board.placedShips) : board.placedShips[k].isSunk

\* Active seats that still have at least one unsunk ship.
LivingSeats(gs) ==
  { p \in ActiveIds(gs) : HasBoard(gs, p) /\ ~checkAllShipsSunk(gs.playerBoards[p]) }

\* activePlayers.findIndex(p => p.id === id), 0-based, -1 when absent.
FindIndex(seq, id) ==
  LET hits == { i \in 1 .. Len(seq) : seq[i].id = id }
  IN IF hits = {} THEN -1
     ELSE (CHOOSE i \in hits : \A j \in hits : i <= j) - 1

\* activePlayers.find(p => p.type !== 'none') : id of the first active seat,
\* NoSeat when there is none.
FirstActiveId(players) ==
  LET act == SelectSeq(players, LAMBDA p : p.type # "none")
  IN IF act = << >> THEN NoSeat ELSE act[1].id

\* { ...createEmptyBoard(id), attackedCells: {}, placedShips: [] }
NewPlayerBoard(id) ==
  [ playerId |-> id,
    cells |-> createEmptyBoard,
    attackedCells |-> [c \in Coordinate |-> "none"],
    placedShips |-> << >> ]

\* The state the provider is constructed with (and resetGame restores).
InitialGameState ==
  LET initialPlayers == MakePlayers(<< "human", "ai", "none", "none" >>)
  IN [ players |-> initialPlayers,
       playerBoards |-> [p \in {0, 1} |-> NewPlayerBoard(p)],
       phase |-> "select-players",
       currentPlayerTurnId |-> 0,
       winnerId |-> NoSeat ]

\* The AttackResult handleAttack starts from and returns on its early exits.
NoResult == [hit |-> FALSE, sunkShipId |-> Undefined, isGameOver |-> FALSE,
             alreadyAttacked |-> FALSE]

NoAttack ==
  [ called |-> FALSE, attackerId |-> NoSeat, targetPlayerId |-> NoSeat,
    coord |-> Coord(0, 0), queued |-> FALSE, result |-> NoResult ]

\* The placement screen before any seat has placed a ship.
NoPlacement ==
  [ currentPlacedShips |-> << >>, currentShipIndex |-> 0,
    currentOrientation |-> "horizontal",
    \* the last handler that ran, the seat it ran for, and whether it
    \* reported that random placement failed
    lastHandler |-> "none", lastPlayerId |-> NoSeat, failed |-> FALSE ]

\* No placement function applied yet.
NoTrial ==
  [ applied |-> "none", shipDef |-> ALL_SHIPS[1], existing |-> << >>,
    start |-> Coord(0, 0), orientation |-> "horizontal",
    listVerdict |-> FALSE, cellVerdict |-> FALSE, result |-> << >> ]

Init ==
  /\ gameState = InitialGameState
  /\ gameStateRef = InitialGameState
  /\ pending = 0
  /\ attackCalls = 0
  /\ lastAttack = NoAttack
  /\ appError = FALSE
  /\ aiBoard = NewAiBoard(AiLayouts[1])
  /\ placement = NoPlacement
  /\ trial = NoTrial
  /\ isAttackOngoing = FALSE
  /\ aiTurns = {}

\* ------------------------------------------------------------------------
\* updatePlayers (GameContext.tsx 209-241)
\* ------------------------------------------------------------------------
updatePlayers(prev, newPlayers) ==
  LET newActive == { newPlayers[i].id : i \in { j \in 1 .. NumPlayers : newPlayers[j].type # "none" } }
      \* boards of seats that stay active are kept, new active seats get an
      \* empty board, boards of 'none' seats are deleted
      newPlayerBoards ==
        [p \in newActive |->
           IF HasBoard(prev, p) THEN prev.playerBoards[p] ELSE NewPlayerBoard(p)]
      newCurrentPlayerTurnId ==
        IF newActive # {} /\ prev.currentPlayerTurnId \notin newActive
          THEN FirstActiveId(newPlayers)
          ELSE IF newActive = {} THEN NoSeat
          ELSE prev.currentPlayerTurnId
  IN [prev EXCEPT !.players = newPlayers,
                  !.playerBoards = newPlayerBoards,
                  !.currentPlayerTurnId = newCurrentPlayerTurnId]

\* ------------------------------------------------------------------------
\* handleStartPlacement (App.tsx 13-31)
\* ------------------------------------------------------------------------
handleStartPlacement(prev) ==
  IF FirstActiveId(prev.players) # NoSeat
    THEN [prev EXCEPT !.phase = "ship-placement",
                      !.currentPlayerTurnId = FirstActiveId(prev.players)]
    ELSE prev

\* ------------------------------------------------------------------------
\* setPlayerBoardShips (GameContext.tsx 243-319)
\* ------------------------------------------------------------------------
IsComplete(boards, p) ==
  p \in DOMAIN boards /\ Len(boards[p].placedShips) = Len(ALL_SHIPS)

\* The while loop of lines 289-299: index (0-based) of the seat the loop
\* stops at, scanning the active seats for one whose fleet is incomplete.
RECURSIVE NextPlayerToPlaceIndex(_, _, _, _, _)
NextPlayerToPlaceIndex(boards, active, playerId, index, attempts) ==
  IF /\ IsComplete(boards, active[index + 1].id)
     /\ attempts < Len(active) * 2
    THEN LET nextIndex == (index + 1) % Len(active)
         IN IF active[nextIndex + 1].id = playerId
              THEN nextIndex
              ELSE NextPlayerToPlaceIndex(boards, active, playerId, nextIndex, attempts + 1)
    ELSE index

setPlayerBoardShips(prev, playerId, placedShips) ==
  IF ~HasBoard(prev, playerId) THEN prev
  ELSE
    LET newCells == updateCellsWithShips(createEmptyBoard, placedShips)
        updatedPlayerBoards ==
          [prev.playerBoards EXCEPT
             ![playerId] = [@ EXCEPT !.placedShips = placedShips, !.cells = newCells]]
        allActivePlayers == ActivePlayers(prev)
        allShipsPlaced ==
          \A k \in 1 .. Len(allActivePlayers) :
             IsComplete(updatedPlayerBoards, allActivePlayers[k].id)
        currentIndex == FindIndex(allActivePlayers, playerId)
        stopIndex ==
          NextPlayerToPlaceIndex(updatedPlayerBoards, allActivePlayers, playerId,
                                 (currentIndex + 1) % Len(allActivePlayers), 0)
        nextPlayerToPlace == allActivePlayers[stopIndex + 1].id
    IN IF allShipsPlaced
         THEN [prev EXCEPT !.playerBoards = updatedPlayerBoards,
                           !.phase = "in-game",
                           !.currentPlayerTurnId = FirstActiveId(prev.players)]
         ELSE IF ~IsComplete(updatedPlayerBoards, nextPlayerToPlace)
           THEN [prev EXCEPT !.playerBoards = updatedPlayerBoards,
                             !.currentPlayerTurnId = nextPlayerToPlace]
           ELSE [prev EXCEPT !.playerBoards = updatedPlayerBoards]

\* The ship lists the placement screen passes: the first n ships of a fleet
\* (n = 0 is the redeploy / failed random placement reset).
PlacementInputs(playerId) ==
  { SubSeq(FleetOf(playerId), 1, n) : n \in 0 .. Len(ALL_SHIPS) }

\* ------------------------------------------------------------------------
\* handleAttack (GameContext.tsx 61-163)
\* ------------------------------------------------------------------------
\* Lines 118-122: every cell of the sunk ship is set to 'sunk'.
RECURSIVE MarkSunk(_, _, _)
MarkSunk(cells, ship, i) ==
  IF i >= ship.definition.size THEN cells
  ELSE MarkSunk([cells EXCEPT ![ShipCell(ship, i)].status = "sunk"], ship, i + 1)

\* newPlacedShips.findIndex(s => s.id === shipId), 1-based, 0 when absent.
ShipIndex(placedShips, shipId) ==
  LET hits == { k \in 1 .. Len(placedShips) : placedShips[k].id = shipId }
  IN IF hits = {} THEN 0 ELSE CHOOSE k \in hits : \A j \in hits : k <= j

\* Faulty variant of HitShip: the ship counts as sunk one hit early.
HitShipOneShort(ship, coord) ==
  LET newHits == Append(ship.hits, coord)
  IN [ship EXCEPT !.hits = newHits,
                  !.isSunk = (Len(newHits) >= ship.definition.size - 1)]

\* Lines 104-110: the hit ship with the coordinate appended to hits and
\* isSunk recomputed from the number of hits.
HitShip(ship, coord) ==
  LET newHits == Append(ship.hits, coord)
  IN [ship EXCEPT !.hits = newHits,
                  !.isSunk = (Len(newHits) = ship.definition.size)]

\* Faulty variant of ApplyAttack: a cell that was already hit or sunk counts
\* as a ship cell again, so the ship collects the same coordinate twice.
ApplyAttackRehit(board, coord) ==
  LET cell == board.cells[coord]
      attackedResult == IF cell.status \in {"ship", "hit", "sunk"} THEN "hit" ELSE "miss"
      cells1 == [board.cells EXCEPT ![coord].status = attackedResult]
      attacked1 == [board.attackedCells EXCEPT ![coord] = attackedResult]
      shipIndex == IF attackedResult = "hit" /\ cell.shipId # Undefined
                     THEN ShipIndex(board.placedShips, cell.shipId) ELSE 0
      updatedShip == HitShip(board.placedShips[shipIndex], coord)
      newPlacedShips == IF shipIndex = 0 THEN board.placedShips
                        ELSE [board.placedShips EXCEPT ![shipIndex] = updatedShip]
      sunkNow == shipIndex # 0 /\ updatedShip.isSunk
      newCells == IF sunkNow THEN MarkSunk(cells1, updatedShip, 0) ELSE cells1
  IN [ board |-> [board EXCEPT !.cells = newCells,
                               !.attackedCells = attacked1,
                               !.placedShips = newPlacedShips],
       hit |-> (attackedResult = "hit"),
       sunkShipId |-> IF sunkNow THEN updatedShip.id ELSE Undefined ]

\* Lines 83-130: the target board after the shot, with the values the
\* updater assigns to the closure variables hit and sunkShipId.
ApplyAttack(board, coord) ==
  LET cell == board.cells[coord]
      attackedResult == IF cell.status = "ship" THEN "hit" ELSE "miss"
      cells1 == [board.cells EXCEPT ![coord].status = attackedResult]
      attacked1 == [board.attackedCells EXCEPT ![coord] = attackedResult]
      shipIndex == IF attackedResult = "hit" /\ cell.shipId # Undefined
                     THEN ShipIndex(board.placedShips, cell.shipId) ELSE 0
      updatedShip == HitShip(board.placedShips[shipIndex], coord)
      newPlacedShips == IF shipIndex = 0 THEN board.placedShips
                        ELSE [board.placedShips EXCEPT ![shipIndex] = updatedShip]
      sunkNow == shipIndex # 0 /\ updatedShip.isSunk
      newCells == IF sunkNow THEN MarkSunk(cells1, updatedShip, 0) ELSE cells1
  IN [ board |-> [board EXCEPT !.cells = newCells,
                               !.attackedCells = attacked1,
                               !.placedShips = newPlacedShips],
       hit |-> (attackedResult = "hit"),
       sunkShipId |-> IF sunkNow THEN updatedShip.id ELSE Undefined ]

\* Faulty variant of RemainingPlayers: the filter keeps the seats whose
\* fleet is entirely sunk.
RemainingPlayersSunk(players, boards) ==
  SelectSeq(SelectSeq(players, LAMBDA p : p.type # "none"),
            LAMBDA p : p.id \in DOMAIN boards /\ checkAllShipsSunk(boards[p.id]))

\* Lines 132-142: the active seats, in seat order, whose board is not
\* entirely sunk.
RemainingPlayers(players, boards) ==
  SelectSeq(SelectSeq(players, LAMBDA p : p.type # "none"),
            LAMBDA p : p.id \in DOMAIN boards /\ ~checkAllShipsSunk(boards[p.id]))

\* Line 146: the winner is the only remaining seat, null otherwise.
WinnerOf(remainingPlayers) ==
  IF Len(remainingPlayers) = 1 THEN remainingPlayers[1].id ELSE NoSeat

\* Faulty variant of AttackUpdater: the game is declared over as soon as
\* the fleet of the seat fired upon is entirely sunk.
AttackUpdaterTargetSunk(prev, targetPlayerId, coord) ==
  LET applied == ApplyAttack(prev.playerBoards[targetPlayerId], coord)
      newPlayerBoards == [prev.playerBoards EXCEPT ![targetPlayerId] = applied.board]
      remainingPlayers == RemainingPlayers(prev.players, newPlayerBoards)
      over == checkAllShipsSunk(applied.board)
  IN [ state |-> IF over
                   THEN [prev EXCEPT !.playerBoards = newPlayerBoards,
                                     !.phase = "game-over",
                                     !.winnerId = WinnerOf(remainingPlayers)]
                   ELSE [prev EXCEPT !.playerBoards = newPlayerBoards],
       result |-> [hit |-> applied.hit, sunkShipId |-> applied.sunkShipId,
                   isGameOver |-> over, alreadyAttacked |-> FALSE] ]

\* Lines 83-159: the updater handed to setGameState.
AttackUpdater(prev, targetPlayerId, coord) ==
  LET applied == ApplyAttack(prev.playerBoards[targetPlayerId], coord)
      newPlayerBoards == [prev.playerBoards EXCEPT ![targetPlayerId] = applied.board]
      remainingPlayers == RemainingPlayers(prev.players, newPlayerBoards)
      over == Len(remainingPlayers) <= 1
  IN [ state |-> IF over
                   THEN [prev EXCEPT !.playerBoards = newPlayerBoards,
                                     !.phase = "game-over",
                                     !.winnerId = WinnerOf(remainingPlayers)]
                   ELSE [prev EXCEPT !.playerBoards = newPlayerBoards],
       result |-> [hit |-> applied.hit, sunkShipId |-> applied.sunkShipId,
                   isGameOver |-> over, alreadyAttacked |-> FALSE] ]

\* Lines 66-77: handleAttack returns early, without queueing an update, when
\* the snapshot has no board for the target or records the coordinate as
\* attacked.
AttackRejected(snapshot, targetPlayerId, coord) ==
  \/ ~HasBoard(snapshot, targetPlayerId)
  \/ snapshot.playerBoards[targetPlayerId].attackedCells[coord] # "none"

\* ------------------------------------------------------------------------
\* advanceTurn (GameContext.tsx 182-206)
\* ------------------------------------------------------------------------
\* Lines 189-190: the seat after the current one among the active seats.
NextPlayerId(prev) ==
  LET activePlayers == ActivePlayers(prev)
      nextPlayerIndex ==
        (FindIndex(activePlayers, prev.currentPlayerTurnId) + 1) % Len(activePlayers)
  IN activePlayers[nextPlayerIndex + 1].id

\* Faulty variant of AdvanceTurnThrows: the loop of line 193 is absent, so
\* the seat after the current one is taken whatever the state of its fleet.
AdvanceTurnNeverThrows(prev) == FALSE

\* Line 193: the loop condition reads remainingPlayersCount, which is
\* declared nowhere; the read happens, and throws a ReferenceError, exactly
\* when checkAllShipsSunk of the next seat's board is true.
AdvanceTurnThrows(prev) ==
  /\ ActivePlayers(prev) # << >>
  /\ \/ ~HasBoard(prev, NextPlayerId(prev))
     \/ checkAllShipsSunk(prev.playerBoards[NextPlayerId(prev)])

\* The state the updater returns when it does not throw.
advanceTurn(prev) ==
  IF ActivePlayers(prev) = << >> THEN prev
  ELSE [prev EXCEPT !.currentPlayerTurnId = NextPlayerId(prev)]

\* ------------------------------------------------------------------------
\* AI targeting (src/src/utils/useAiAttackLogic.tsx)
\* ------------------------------------------------------------------------
\* The test every branch applies to a candidate: inside the grid and the
\* cell's status 'empty' or 'ship'.
IsOpen(board, c) ==
  /\ c.y >= 0 /\ c.y < AiGrid
  /\ c.x >= 0 /\ c.x < AiGrid
  /\ board.cells[c].status \in {"empty", "ship"}

\* Lines 18-26: the cells not yet fired upon.
availableCells(board) ==
  { c \in AiCoordinate : board.cells[c].status \in {"empty", "ship"} }

\* Faulty variant of getEasyAttack: the status test of line 22 is absent.
getEasyAttackAnyCell(opponentBoard) == AiCoordinate

\* getEasyAttack: any element of availableCells; indexing the empty list
\* yields undefined.
getEasyAttack(opponentBoard) ==
  IF availableCells(opponentBoard) = {} THEN {NoCoord}
  ELSE availableCells(opponentBoard)

\* Position of a cell in the row-by-row scans (r outer, c inner).
RowMajor(c) == c.y * AiGrid + c.x

\* The cell of a non-empty set the scan meets first.
FirstInScan(S) == CHOOSE c \in S : \A d \in S : RowMajor(c) <= RowMajor(d)

\* The four neighbours in the order of the source: up, down, left, right.
neighbors(c) ==
  << [x |-> c.x, y |-> c.y - 1], [x |-> c.x, y |-> c.y + 1],
     [x |-> c.x - 1, y |-> c.y], [x |-> c.x + 1, y |-> c.y] >>

\* The first open coordinate of a list of candidates, NoCoord when none is.
FirstOpen(board, targets) ==
  LET open == { i \in 1 .. Len(targets) : IsOpen(board, targets[i]) }
  IN IF open = {} THEN NoCoord
     ELSE targets[CHOOSE i \in open : \A j \in open : i <= j]

\* Faulty variant of getNormalAttack: the search around hit cells (lines
\* 33-58) is absent.
getNormalAttackHuntOnly(opponentBoard) ==
  LET availableCheckerboardCells ==
        { c \in availableCells(opponentBoard) : (c.y + c.x) % 2 = 0 }
  IN IF availableCheckerboardCells # {}
       THEN availableCheckerboardCells
       ELSE getEasyAttack(opponentBoard)

\* Faulty variant of getNormalAttack: the parity test of line 66 is absent.
getNormalAttackNoParity(opponentBoard) ==
  LET hitCells == { c \in AiCoordinate :
                      /\ opponentBoard.cells[c].status = "hit"
                      /\ FirstOpen(opponentBoard, neighbors(c)) # NoCoord }
  IN IF hitCells # {}
       THEN { FirstOpen(opponentBoard, neighbors(FirstInScan(hitCells))) }
       ELSE getEasyAttack(opponentBoard)

\* getNormalAttack: the first open neighbour of the first hit cell that has
\* one; else any open cell with (r + c) even; else getEasyAttack.
getNormalAttack(opponentBoard) ==
  LET hitCells == { c \in AiCoordinate :
                      /\ opponentBoard.cells[c].status = "hit"
                      /\ FirstOpen(opponentBoard, neighbors(c)) # NoCoord }
      availableCheckerboardCells ==
        { c \in availableCells(opponentBoard) : (c.y + c.x) % 2 = 0 }
  IN IF hitCells # {}
       THEN { FirstOpen(opponentBoard, neighbors(FirstInScan(hitCells))) }
       ELSE IF availableCheckerboardCells # {}
         THEN availableCheckerboardCells
         ELSE getEasyAttack(opponentBoard)

MinOf(S) == CHOOSE m \in S : \A n \in S : m <= n
MaxOf(S) == CHOOSE m \in S : \A n \in S : m >= n

\* Lines 93-165: what the scan of getHardAttack returns at one hit cell,
\* NoCoord when it moves on to the next cell.
HardTargetAt(board, c) ==
  LET k == ShipIndex(board.placedShips, board.cells[c].shipId)
      hitsForThisShip == IF k = 0 THEN << >> ELSE board.placedShips[k].hits
      xs == { hitsForThisShip[i].x : i \in 1 .. Len(hitsForThisShip) }
      ys == { hitsForThisShip[i].y : i \in 1 .. Len(hitsForThisShip) }
      firstHit == hitsForThisShip[1]
      secondHit == hitsForThisShip[2]
      inLine ==
        IF Len(hitsForThisShip) > 1
          THEN IF firstHit.y = secondHit.y
                 THEN FirstOpen(board, << [x |-> MinOf(xs) - 1, y |-> firstHit.y],
                                          [x |-> MaxOf(xs) + 1, y |-> firstHit.y] >>)
               ELSE IF firstHit.x = secondHit.x
                 THEN FirstOpen(board, << [x |-> firstHit.x, y |-> MinOf(ys) - 1],
                                          [x |-> firstHit.x, y |-> MaxOf(ys) + 1] >>)
               ELSE NoCoord
          ELSE NoCoord
  IN IF k # 0 /\ board.placedShips[k].isSunk THEN NoCoord
     ELSE IF inLine # NoCoord THEN inLine
     ELSE FirstOpen(board, neighbors(c))

\* Lines 188-219: a ship of the class laid from an anchor fits the grid and
\* covers no cell that is hit, miss or sunk.
Fits(board, shipDef, anchor, orientation) ==
  /\ (IF orientation = "horizontal" THEN anchor.x ELSE anchor.y) + shipDef.size <= AiGrid
  /\ \A c \in ShipCoords(PlacedShip(shipDef, anchor, orientation)) :
        board.cells[c].status \notin {"hit", "miss", "sunk"}

\* The placements of a ship class that cover a cell: the anchors from which
\* one of the loops of lines 199-201 and 215-217 reaches the cell.
Covering(shipDef, c) ==
  { << [x |-> c.x - i, y |-> c.y], "horizontal" >> : i \in 0 .. (shipDef.size - 1) }
    \cup { << [x |-> c.x, y |-> c.y - i], "vertical" >> : i \in 0 .. (shipDef.size - 1) }

\* Lines 184-222: the entry of the probabilities map for one cell, summed
\* over the ship classes of the list: the number of fitting placements,
\* anchored at a cell of the grid, that cover it.
RECURSIVE CoverCount(_, _, _)
CoverCount(board, shipDefs, c) ==
  IF shipDefs = << >> THEN 0
  ELSE Cardinality({ pl \in Covering(Head(shipDefs), c) :
                       /\ pl[1] \in AiCoordinate
                       /\ Fits(board, Head(shipDefs), pl[1], pl[2]) })
       + CoverCount(board, Tail(shipDefs), c)

\* Faulty variant of bestCandidates: the comparison of line 238 is absent.
bestCandidatesAnyOpen(board, remainingShipDefinitions) == availableCells(board)

\* Lines 224-245: the open cells whose entry of the map is the largest.
bestCandidates(board, remainingShipDefinitions) ==
  LET probabilities == [c \in AiCoordinate |-> CoverCount(board, remainingShipDefinitions, c)]
      maxProbability == MaxOf({ probabilities[c] : c \in availableCells(board) })
  IN { c \in availableCells(board) : probabilities[c] = maxProbability }

\* getHardAttack: the target of the first hit cell of an unsunk ship that
\* yields one; else any best candidate of the map; else getEasyAttack.
getHardAttack(opponentBoard, sunkShips, remainingShipDefinitions) ==
  LET hitCells == { c \in AiCoordinate :
                      /\ opponentBoard.cells[c].status = "hit"
                      /\ HardTargetAt(opponentBoard, c) # NoCoord }
  IN IF hitCells # {}
       THEN { HardTargetAt(opponentBoard, FirstInScan(hitCells)) }
       ELSE IF bestCandidates(opponentBoard, remainingShipDefinitions) # {}
         THEN bestCandidates(opponentBoard, remainingShipDefinitions)
         ELSE getEasyAttack(opponentBoard)

\* getAiAttackCoordinate: the set of coordinates the call may return.
getAiAttackCoordinate(difficulty, opponentBoard, sunkShips, remainingShipDefinitions) ==
  IF difficulty = "easy" THEN getEasyAttack(opponentBoard)
  ELSE IF difficulty = "normal" THEN getNormalAttack(opponentBoard)
  ELSE IF difficulty = "hard"
    THEN getHardAttack(opponentBoard, sunkShips, remainingShipDefinitions)
  ELSE getEasyAttack(opponentBoard)

\* The arguments the game screen computes from the opponent's board.
getSunkShips(board) == SelectSeq(board.placedShips, LAMBDA ship : ship.isSunk)

getRemainingShipDefinitions(board) ==
  SelectSeq(AiShips,
            LAMBDA shipDef : ~\E k \in 1 .. Len(board.placedShips) :
                                 /\ board.placedShips[k].isSunk
                                 /\ board.placedShips[k].id = shipDef.id)

\* Every coordinate an AI seat of the given difficulty may fire at.
AiChoices(difficulty, board) ==
  getAiAttackCoordinate(difficulty, board, getSunkShips(board),
                        getRemainingShipDefinitions(board))

\* ------------------------------------------------------------------------
\* Actions
\* ------------------------------------------------------------------------
\* The player selector changes the seats.
UpdatePlayers ==
  /\ ~appError
  /\ gameState.phase = "select-players"
  /\ gameStateRef = gameState
  /\ \E types \in PlayerConfigs :
        /\ gameState' = updatePlayers(gameState, MakePlayers(types))
        /\ gameStateRef' = gameState'
  /\ UNCHANGED << pending, attackCalls, lastAttack, appError, aiBoard, placement, trial, isAttackOngoing, aiTurns >>

\* The "next" button of the player selector.
StartPlacement ==
  /\ ~appError
  /\ gameState.phase = "select-players"
  /\ gameStateRef = gameState
  /\ gameState' = handleStartPlacement(gameState)
  /\ gameStateRef' = gameState'
  /\ UNCHANGED << pending, attackCalls, lastAttack, appError, aiBoard, placement, trial, isAttackOngoing, aiTurns >>

\* The placement screen stores the ships of the seat whose turn it is.
SetPlayerBoardShips ==
  /\ ~appError
  /\ gameState.phase = "ship-placement"
  /\ gameStateRef = gameState
  /\ \E placedShips \in PlacementInputs(gameState.currentPlayerTurnId) :
        /\ gameState' = setPlayerBoardShips(gameState, gameState.currentPlayerTurnId, placedShips)
        /\ gameStateRef' = gameState'
  /\ UNCHANGED << pending, attackCalls, lastAttack, appError, aiBoard, placement, trial, isAttackOngoing, aiTurns >>

\* One call of handleAttack as the game screen makes it: by the seat whose
\* turn it is, at a cell of the board of another active seat.  The call
\* reads gameStateRef, queues the updater unless it returns early, and
\* returns the closure variables, which hold the updater's results only
\* when React ran the updater before the call returned (eager).
HandleAttack ==
  /\ ~appError
  /\ gameState.phase \in {"in-game", "game-over"}
  /\ attackCalls < MaxShots
  /\ pending < MaxPending
  /\ \E targetPlayerId \in ActiveIds(gameState) \ {gameState.currentPlayerTurnId},
        coord \in Coordinate, eager \in BOOLEAN :
        LET attackerId == gameState.currentPlayerTurnId
            rejected == AttackRejected(gameStateRef, targetPlayerId, coord)
            updated == AttackUpdater(gameState, targetPlayerId, coord)
        IN /\ gameState' = IF rejected THEN gameState ELSE updated.state
           /\ pending' = IF rejected THEN pending ELSE pending + 1
           /\ lastAttack' =
                [ called |-> TRUE, attackerId |-> attackerId,
                  targetPlayerId |-> targetPlayerId, coord |-> coord,
                  queued |-> ~rejected,
                  result |-> IF rejected \/ ~eager THEN NoResult ELSE updated.result ]
  /\ attackCalls' = attackCalls + 1
  /\ UNCHANGED << gameStateRef, appError, aiBoard, placement, trial, isAttackOngoing, aiTurns >>

\* The effect of lines 55-57 runs after a render: the ref catches up.
RefreshRef ==
  /\ ~appError
  /\ gameStateRef # gameState
  /\ gameStateRef' = gameState
  /\ pending' = 0
  /\ UNCHANGED << gameState, attackCalls, lastAttack, appError, aiBoard, placement, trial, isAttackOngoing, aiTurns >>

\* One call of advanceTurn, from a timer callback.
AdvanceTurn ==
  /\ ~appError
  /\ gameState.phase \in {"in-game", "game-over"}
  /\ gameStateRef = gameState
  /\ IF AdvanceTurnThrows(gameState)
       THEN /\ appError' = TRUE
            /\ UNCHANGED << gameState, gameStateRef >>
       ELSE /\ gameState' = advanceTurn(gameState)
            /\ gameStateRef' = gameState'
            /\ UNCHANGED appError
  /\ UNCHANGED << pending, attackCalls, lastAttack, aiBoard, placement, trial, isAttackOngoing, aiTurns >>

\* The "play again" button of the game-over screen.
ResetGame ==
  /\ ~appError
  /\ gameState.phase = "game-over"
  /\ gameState' = InitialGameState
  /\ gameStateRef' = InitialGameState
  /\ pending' = 0
  /\ attackCalls' = 0
  /\ lastAttack' = NoAttack
  /\ UNCHANGED << appError, aiBoard, placement, trial, isAttackOngoing, aiTurns >>

Next ==
  \/ UpdatePlayers
  \/ StartPlacement
  \/ SetPlayerBoardShips
  \/ HandleAttack
  \/ RefreshRef
  \/ AdvanceTurn
  \/ ResetGame

Spec == Init /\ [][Next]_vars

\* ------------------------------------------------------------------------
\* Games with three and four seats
\* ------------------------------------------------------------------------
\* The seats chosen, the placement screen opened and every active seat's
\* fleet stored in turn: the state in which combat starts.
RECURSIVE PlaceAll(_)
PlaceAll(gs) ==
  IF gs.phase # "ship-placement" THEN gs
  ELSE PlaceAll(setPlayerBoardShips(gs, gs.currentPlayerTurnId,
                                    FleetOf(gs.currentPlayerTurnId)))

StartOf(types) ==
  PlaceAll(handleStartPlacement(updatePlayers(InitialGameState, MakePlayers(types))))

\* The state after the listed shots, each applied by the attack updater.
RECURSIVE Play(_, _)
Play(gs, shots) ==
  IF shots = << >> THEN gs
  ELSE Play(AttackUpdater(gs, Head(shots).targetPlayerId, Head(shots).coord).state,
            Tail(shots))

\* The shots that sink the first ship of every seat but the one to move.
RECURSIVE FirstShipShots(_, _)
FirstShipShots(gs, targets) ==
  IF targets = << >> THEN << >>
  ELSE LET ship == FleetOf(Head(targets).id)[1]
       IN [i \in 1 .. ship.definition.size |->
             [targetPlayerId |-> Head(targets).id, coord |-> ShipCell(ship, i - 1)]]
          \o FirstShipShots(gs, Tail(targets))

\* A late position: every opponent of the seat to move is down to its last
\* ship.
LateOf(types) ==
  LET start == StartOf(types)
      opponents == SelectSeq(ActivePlayers(start),
                             LAMBDA p : p.id # start.currentPlayerTurnId)
  IN Play(start, FirstShipShots(start, opponents))

InitMulti ==
  /\ gameState \in { StartOf(types) : types \in MultiSeatConfigs }
                   \cup { LateOf(types) : types \in MultiSeatConfigs }
  /\ gameStateRef = gameState
  /\ pending = 0
  /\ attackCalls = 0
  /\ lastAttack = NoAttack
  /\ appError = FALSE
  /\ aiBoard = NewAiBoard(AiLayouts[1])
  /\ placement = NoPlacement
  /\ trial = NoTrial
  /\ isAttackOngoing = FALSE
  /\ aiTurns = {}

SpecMulti == InitMulti /\ [][Next]_vars

\* ------------------------------------------------------------------------
\* An AI seat firing at one opponent board
\* ------------------------------------------------------------------------
\* The AI turn of the game screen, for an AI seat of any difficulty: the
\* coordinate the targeting function returns is handed to handleAttack,
\* whose updater resolves it on the opponent's board.
AiAttack ==
  /\ \E attackCoord \in UNION { AiChoices(difficulty, aiBoard) : difficulty \in Difficulties } :
        /\ attackCoord # NoCoord
        /\ aiBoard' = ApplyAttack(aiBoard, attackCoord).board
  /\ UNCHANGED << gameVars, placement, trial, isAttackOngoing, aiTurns >>

InitAi ==
  /\ gameState = InitialGameState
  /\ gameStateRef = InitialGameState
  /\ pending = 0
  /\ attackCalls = 0
  /\ lastAttack = NoAttack
  /\ appError = FALSE
  /\ \E i \in 1 .. Len(AiLayouts) : aiBoard = NewAiBoard(AiLayouts[i])
  /\ placement = NoPlacement
  /\ trial = NoTrial
  /\ isAttackOngoing = FALSE
  /\ aiTurns = {}

NextAi == AiAttack

SpecAi == InitAi /\ [][NextAi]_vars

\* The same AI turns on a board whose ships lie side by side: the destroyer
\* in the top row, the submarine in the row below it.
AdjacentLayout ==
  << PlacedShip(AiShips[1], Coord(0, 1), "horizontal"),
     PlacedShip(AiShips[2], Coord(0, 0), "horizontal") >>

InitAiAdjacent ==
  /\ gameState = InitialGameState
  /\ gameStateRef = InitialGameState
  /\ pending = 0
  /\ attackCalls = 0
  /\ lastAttack = NoAttack
  /\ appError = FALSE
  /\ aiBoard = NewAiBoard(AdjacentLayout)
  /\ placement = NoPlacement
  /\ trial = NoTrial
  /\ isAttackOngoing = FALSE
  /\ aiTurns = {}

SpecAiAdjacent == InitAiAdjacent /\ [][NextAi]_vars

\* ------------------------------------------------------------------------
\* The ship placement screen (src/src/components/ShipPlacement.tsx, second
\* revision in the file, lines 397-1143)
\* ------------------------------------------------------------------------
\* The screen works on the provider's state through setPlayerBoardShips and
\* validates with the cell-based utilities.  (The first revision in the
\* file places only ships the board lists as unplaced; the provider creates
\* every board with an empty ship list, so its placement code never runs.)

\* The seat whose fleet is being placed.
currentPlayer == gameState.players[gameState.currentPlayerTurnId + 1]

\* The board both handlers validate on (lines 746-756 and 843-853): the
\* empty grid with placeShipOnBoard applied for every ship of the list.
RECURSIVE tempCellsForValidation(_, _)
tempCellsForValidation(cells, placedShips) ==
  IF placedShips = << >> THEN cells
  ELSE LET s == Head(placedShips)
       IN tempCellsForValidation(
            placeShipOnBoard(cells, s.definition, s.start, s.orientation),
            Tail(placedShips))

\* The test of lines 758-770 and 855-863.
PlacementAccepted(placedShips, newShip) ==
  /\ isShipWithinBounds(newShip.start, newShip.definition.size, newShip.orientation)
  /\ isShipPlacementValid(tempCellsForValidation(createEmptyBoard, placedShips),
                          newShip.start, newShip.definition.size, newShip.orientation)

\* The initialisation effect (lines 535-628), which runs whenever the
\* current seat or the boards change: the screen reloads the ships of the
\* current seat's board; the orientation is reset unless the fleet is
\* complete.
initEffect(gs, local) ==
  LET id == gs.currentPlayerTurnId
      existingPlaced == IF HasBoard(gs, id) THEN gs.playerBoards[id].placedShips ELSE << >>
  IN [ local EXCEPT
         !.currentPlacedShips = existingPlaced,
         !.currentShipIndex = Len(existingPlaced),
         !.currentOrientation =
            IF Len(existingPlaced) = Len(ALL_SHIPS) THEN @ ELSE "horizontal" ]

\* The while loop of handleRandomPlacement for one ship (lines 826-871),
\* from the given attempt count on: << ship >> when a draw was accepted,
\* << >> when the attempts ran out.
RECURSIVE RandomShipFrom(_, _, _)
RandomShipFrom(shipDef, newPlacedShips, attempts) ==
  IF attempts >= maxAttempts THEN { << >> }
  ELSE
    LET draws == Coordinate \X {"horizontal", "vertical"}
        accepted ==
          { d \in draws :
              PlacementAccepted(newPlacedShips, PlacedShip(shipDef, d[1], d[2])) }
    IN { << PlacedShip(shipDef, d[1], d[2]) >> : d \in accepted }
         \cup (IF draws \ accepted # {}
                 THEN RandomShipFrom(shipDef, newPlacedShips, attempts + 1)
                 ELSE {})

\* The for loop of handleRandomPlacement from the k-th ship class on (lines
\* 821-888): the ships chosen, and whether every class was placed.
RECURSIVE RandomFleetFrom(_, _)
RandomFleetFrom(k, newPlacedShips) ==
  IF k > Len(ALL_SHIPS) THEN { [placed |-> TRUE, newPlacedShips |-> newPlacedShips] }
  ELSE UNION { IF r = << >>
                 THEN { [placed |-> FALSE, newPlacedShips |-> newPlacedShips] }
                 ELSE RandomFleetFrom(k + 1, Append(newPlacedShips, r[1]))
               : r \in RandomShipFrom(ALL_SHIPS[k], newPlacedShips, 0) }

\* What the failure branch stores (lines 880-886) while leaving the board
\* as it was.
RandomPlacementFailedKeepsBoard(prev, playerId) == prev

\* What the failure branch stores (lines 880-886): the Context is reset.
RandomPlacementFailed(prev, playerId) == setPlayerBoardShips(prev, playerId, << >>)

\* A click on a cell of the own board by a human seat (handleCellClick,
\* lines 717-796).  A rejected click only raises an alert.
HandleCellClick ==
  /\ ~appError
  /\ gameState.phase = "ship-placement"
  /\ currentPlayer.type = "human"
  /\ placement.currentShipIndex < Len(ALL_SHIPS)
  /\ \E coord \in Coordinate :
        LET newShip == PlacedShip(ALL_SHIPS[placement.currentShipIndex + 1], coord,
                                  placement.currentOrientation)
            updatedPlacedShips == Append(placement.currentPlacedShips, newShip)
        IN /\ PlacementAccepted(placement.currentPlacedShips, newShip)
           /\ gameState' = setPlayerBoardShips(gameState, currentPlayer.id, updatedPlacedShips)
           /\ placement' =
                [ initEffect(gameState', placement) EXCEPT
                    !.lastHandler = "handleCellClick",
                    !.lastPlayerId = currentPlayer.id,
                    !.failed = FALSE ]
  /\ gameStateRef' = gameState'
  /\ UNCHANGED << pending, attackCalls, lastAttack, appError, aiBoard, trial, isAttackOngoing, aiTurns >>

\* The rotate button (lines 798-802, enabled as in lines 1083-1089).
HandleRotateShip ==
  /\ ~appError
  /\ gameState.phase = "ship-placement"
  /\ currentPlayer.type = "human"
  /\ placement.currentShipIndex < Len(ALL_SHIPS)
  /\ placement' =
       [ placement EXCEPT
           !.currentOrientation = IF @ = "horizontal" THEN "vertical" ELSE "horizontal",
           !.lastHandler = "handleRotateShip",
           !.lastPlayerId = currentPlayer.id,
           !.failed = FALSE ]
  /\ UNCHANGED << gameVars, aiBoard, trial, isAttackOngoing, aiTurns >>

\* handleRandomPlacement (lines 805-901) for the current seat: the button of
\* a human seat (lines 1095-1104) or the timer of an AI seat (lines
\* 950-962).  Every ship class is drawn in turn; the Context receives the
\* whole fleet, or the empty list when a class could not be placed.
HandleRandomPlacement ==
  /\ ~appError
  /\ gameState.phase = "ship-placement"
  /\ currentPlayer.type \in {"human", "ai"}
  /\ placement.currentShipIndex < Len(ALL_SHIPS)
  /\ \E outcome \in RandomFleetFrom(1, << >>) :
        /\ gameState' =
             IF outcome.placed
               THEN setPlayerBoardShips(gameState, currentPlayer.id, outcome.newPlacedShips)
               ELSE RandomPlacementFailed(gameState, currentPlayer.id)
        /\ placement' =
             [ initEffect(gameState', placement) EXCEPT
                 !.lastHandler = "handleRandomPlacement",
                 !.lastPlayerId = currentPlayer.id,
                 !.failed = ~outcome.placed ]
  /\ gameStateRef' = gameState'
  /\ UNCHANGED << pending, attackCalls, lastAttack, appError, aiBoard, trial, isAttackOngoing, aiTurns >>

\* The redeploy button of a human seat (handleRedeploy, lines 903-915).
HandleRedeploy ==
  /\ ~appError
  /\ gameState.phase = "ship-placement"
  /\ currentPlayer.type = "human"
  /\ gameState' = setPlayerBoardShips(gameState, currentPlayer.id, << >>)
  /\ placement' =
       [ initEffect(gameState', placement) EXCEPT
           !.currentOrientation = "horizontal",
           !.lastHandler = "handleRedeploy",
           !.lastPlayerId = currentPlayer.id,
           !.failed = FALSE ]
  /\ gameStateRef' = gameState'
  /\ UNCHANGED << pending, attackCalls, lastAttack, appError, aiBoard, trial, isAttackOngoing, aiTurns >>

\* The screen as it opens: the seats chosen and the "next" button pressed.
InitPlacement ==
  /\ \E types \in PlayerConfigs :
        gameState = handleStartPlacement(updatePlayers(InitialGameState, MakePlayers(types)))
  /\ gameStateRef = gameState
  /\ pending = 0
  /\ attackCalls = 0
  /\ lastAttack = NoAttack
  /\ appError = FALSE
  /\ aiBoard = NewAiBoard(AiLayouts[1])
  /\ placement = NoPlacement
  /\ trial = NoTrial
  /\ isAttackOngoing = FALSE
  /\ aiTurns = {}

NextPlacement ==
  \/ HandleCellClick
  \/ HandleRotateShip
  \/ HandleRandomPlacement
  \/ HandleRedeploy

SpecPlacement == InitPlacement /\ [][NextPlacement]_vars

\* ------------------------------------------------------------------------
\* The placement functions on their own
\* ------------------------------------------------------------------------
\* A ship lies on the grid and on no cell of the ships of a list.
OnGridAndClear(ship, placedShips) ==
  /\ ShipCoords(ship) \subseteq Coordinate
  /\ \A k \in 1 .. Len(placedShips) :
        ShipCoords(ship) \cap ShipCoords(placedShips[k]) = {}

\* Every way to put a ship class on the grid or partly off it.
Placements(shipDef) ==
  { PlacedShip(shipDef, start, orientation) :
      start \in Coordinate, orientation \in {"horizontal", "vertical"} }

\* The lists of already placed ships a caller can hand over together with
\* shipDef: ships of the other classes among the first n of ALL_SHIPS, in
\* fleet order, each on the grid and clear of the ships before it.
RECURSIVE PlacedLists(_, _)
PlacedLists(n, shipDef) ==
  IF n = 0 THEN { << >> }
  ELSE LET shorter == PlacedLists(n - 1, shipDef)
           longer ==
             { q \in shorter \X Placements(ALL_SHIPS[n]) : OnGridAndClear(q[2], q[1]) }
       IN shorter \cup (IF ALL_SHIPS[n] = shipDef
                          THEN {}
                          ELSE { Append(q[1], q[2]) : q \in longer })

\* Anchors handed to the validators: the grid and one cell around it.
Anchors == [x : -1 .. BoardSize, y : -1 .. BoardSize]

\* The validators applied to one anchor and orientation: isValidPlacement on
\* the ship list, isShipWithinBounds and isShipPlacementValid on the cells
\* of that list.
ValidatePlacement ==
  /\ \E start \in Anchors, orientation \in {"horizontal", "vertical"} :
        trial' =
          [ trial EXCEPT
              !.applied = "validators",
              !.start = start,
              !.orientation = orientation,
              !.listVerdict =
                 isValidPlacement(trial.shipDef, start, orientation, trial.existing),
              !.cellVerdict =
                 /\ isShipWithinBounds(start, trial.shipDef.size, orientation)
                 /\ isShipPlacementValid(
                      updateCellsWithShips(createEmptyBoard, trial.existing),
                      start, trial.shipDef.size, orientation),
              !.result = << >> ]
  /\ UNCHANGED << gameVars, aiBoard, placement, isAttackOngoing, aiTurns >>

\* One call of placeShipRandomly.
PlaceShipRandomly ==
  /\ \E result \in placeShipRandomly(trial.shipDef, trial.existing) :
        trial' = [ trial EXCEPT !.applied = "placeShipRandomly", !.result = result ]
  /\ UNCHANGED << gameVars, aiBoard, placement, isAttackOngoing, aiTurns >>

\* One call of generateRandomShipPlacement.
GenerateRandomShipPlacement ==
  /\ \E result \in generateRandomShipPlacement(0, trial.shipDef, trial.existing) :
        trial' = [ trial EXCEPT !.applied = "generateRandomShipPlacement",
                                !.result = result ]
  /\ UNCHANGED << gameVars, aiBoard, placement, isAttackOngoing, aiTurns >>

InitTrial ==
  /\ gameState = InitialGameState
  /\ gameStateRef = InitialGameState
  /\ pending = 0
  /\ attackCalls = 0
  /\ lastAttack = NoAttack
  /\ appError = FALSE
  /\ aiBoard = NewAiBoard(AiLayouts[1])
  /\ placement = NoPlacement
  /\ \E i \in 1 .. Len(ALL_SHIPS) :
        \E existing \in PlacedLists(Len(ALL_SHIPS), ALL_SHIPS[i]) :
           trial = [ NoTrial EXCEPT !.shipDef = ALL_SHIPS[i], !.existing = existing ]
  /\ isAttackOngoing = FALSE
  /\ aiTurns = {}

NextTrial ==
  \/ ValidatePlacement
  \/ PlaceShipRandomly
  \/ GenerateRandomShipPlacement

SpecTrial == InitTrial /\ [][NextTrial]_vars

\* ------------------------------------------------------------------------
\* Game screen (GameScreen.tsx 281-516)
\* ------------------------------------------------------------------------
\* The screen is mounted while the phase is in-game (App.tsx 42).  Its
\* handlers are taken when the screen has rendered the provider's current
\* state, so the values their closures hold are those of gameState.

\* The seats the screen may be opened with.
ScreenConfigs ==
  { << "human", "ai", "none", "none" >>,
    << "ai", "ai", "none", "none" >>,
    << "none", "human", "none", "ai" >>,
    << "human", "ai", "ai", "none" >> }

\* Line 293: playerBoards[currentPlayerTurnId].
myBoard == gameState.playerBoards[gameState.currentPlayerTurnId]

\* Lines 295-298: players.find(p => p.id !== currentPlayerTurnId &&
\* p.type !== 'none'), << >> when find returns undefined.
opponentPlayer ==
  LET others == SelectSeq(gameState.players,
                          LAMBDA p : p.id # gameState.currentPlayerTurnId /\ p.type # "none")
  IN IF others = << >> THEN << >> ELSE << others[1] >>

\* Line 300: playerBoards[opponentPlayer.id].
opponentBoard == gameState.playerBoards[opponentPlayer[1].id]

\* Lines 382-399: the coordinate the loop leaves with after the given number
\* of draws, << >> when the attempts are used up.  A draw is repeated when
\* the cell is marked in attackedCells and attempts remain.
RECURSIVE AIAttackCoordFrom(_, _)
AIAttackCoordFrom(attackedCells, attempts) ==
  LET n == attempts + 1
      again == { c \in Coordinate : attackedCells[c] # "none" /\ n < maxAttempts }
  IN (IF n >= maxAttempts THEN { << >> }
      ELSE { << c >> : c \in Coordinate \ again })
     \cup (IF again = {} THEN {} ELSE AIAttackCoordFrom(attackedCells, n))

\* One call of the provider's handleAttack with the given arguments.
ContextHandleAttack(attackerId, targetPlayerId, coord, eager) ==
  LET rejected == AttackRejected(gameStateRef, targetPlayerId, coord)
      updated == AttackUpdater(gameState, targetPlayerId, coord)
  IN /\ gameState' = IF rejected THEN gameState ELSE updated.state
     /\ pending' = IF rejected THEN pending ELSE pending + 1
     /\ lastAttack' =
          [ called |-> TRUE, attackerId |-> attackerId,
            targetPlayerId |-> targetPlayerId, coord |-> coord,
            queued |-> ~rejected,
            result |-> IF rejected \/ ~eager THEN NoResult ELSE updated.result ]
     /\ attackCalls' = attackCalls + 1

\* One call of the provider's advanceTurn.
ContextAdvanceTurn ==
  IF AdvanceTurnThrows(gameState)
    THEN /\ appError' = TRUE
         /\ UNCHANGED << gameState, gameStateRef >>
    ELSE /\ gameState' = advanceTurn(gameState)
         /\ gameStateRef' = gameState'
         /\ UNCHANGED appError

\* Lines 431-469: a click on a cell of the opponent's board.  A cell marked
\* in attackedCells is refused before handleAttack is called.
HandleHumanAttack ==
  /\ ~appError
  /\ gameState.phase = "in-game"
  /\ gameStateRef = gameState
  /\ attackCalls < MaxShots
  /\ ~isAttackOngoing
  /\ opponentPlayer # << >>
  /\ HasBoard(gameState, opponentPlayer[1].id)
  /\ currentPlayer.type = "human"
  /\ \E coord \in Coordinate, eager \in BOOLEAN :
        IF opponentBoard.attackedCells[coord] # "none"
          THEN UNCHANGED << gameState, pending, attackCalls, lastAttack, isAttackOngoing, aiTurns >>
          ELSE /\ ContextHandleAttack(currentPlayer.id, opponentPlayer[1].id, coord, eager)
               /\ isAttackOngoing' = TRUE
  /\ UNCHANGED << gameStateRef, appError, aiBoard, placement, trial, aiTurns >>

\* Lines 366-427 up to the second await, started by the effect of lines
\* 473-477 when the seat to move is an AI: a random cell not marked in the
\* attackedCells of myBoard is passed to handleAttack together with
\* myBoard.playerId; when the draws are used up the turn is passed on.
HandleAIAttack ==
  /\ ~appError
  /\ gameState.phase = "in-game"
  /\ gameStateRef = gameState
  /\ attackCalls < MaxShots
  /\ ~isAttackOngoing
  /\ opponentPlayer # << >>
  /\ HasBoard(gameState, gameState.currentPlayerTurnId)
  /\ currentPlayer.type = "ai"
  /\ \E attackCoord \in AIAttackCoordFrom(
                          gameStateRef.playerBoards[myBoard.playerId].attackedCells, 0),
        eager \in BOOLEAN :
        IF attackCoord = << >>
          THEN /\ ContextAdvanceTurn
               /\ isAttackOngoing' = FALSE
               /\ UNCHANGED << pending, attackCalls, lastAttack >>
          ELSE /\ ContextHandleAttack(currentPlayer.id, myBoard.playerId,
                                       attackCoord[1], eager)
               /\ isAttackOngoing' = TRUE
               /\ UNCHANGED << gameStateRef, appError >>
  /\ UNCHANGED << aiBoard, placement, trial, aiTurns >>

\* Lines 417-426 and 459-464: 1.5 s after the shot the handler calls
\* advanceTurn and clears the flag (the result the provider returns has no
\* allShipsSunk field, so the test of lines 417 and 459 always passes).
TurnTimer ==
  /\ ~appError
  /\ isAttackOngoing
  /\ gameStateRef = gameState
  /\ ContextAdvanceTurn
  /\ isAttackOngoing' = FALSE
  /\ UNCHANGED << pending, attackCalls, lastAttack, aiBoard, placement, trial, aiTurns >>

\* The screen opens on the state in which combat starts.
InitScreen ==
  /\ gameState \in { StartOf(types) : types \in ScreenConfigs }
  /\ gameStateRef = gameState
  /\ pending = 0
  /\ attackCalls = 0
  /\ lastAttack = NoAttack
  /\ appError = FALSE
  /\ aiBoard = NewAiBoard(AiLayouts[1])
  /\ placement = NoPlacement
  /\ trial = NoTrial
  /\ isAttackOngoing = FALSE
  /\ aiTurns = {}

NextScreen ==
  \/ HandleHumanAttack
  \/ HandleAIAttack
  \/ TurnTimer
  \/ RefreshRef

SpecScreen == InitScreen /\ [][NextScreen]_vars

\* ------------------------------------------------------------------------
\* Game screen that judges the winner (src/unnamed/part_008, lines 24-359)
\* ------------------------------------------------------------------------
\* In this revision of the screen both handlers, after the call of
\* handleAttack, read gameStateRef.current and either write the winner with
\* setGameState or call advanceTurn, in the same run of the handler.

\* The seats the games of this screen are played with.
DriverConfigs ==
  { << "human", "ai", "none", "none" >>,
    << "human", "ai", "ai", "none" >>,
    << "human", "human", "ai", "none" >> }

\* Lines 47-52 on a given state: the id of the first active seat other than
\* the current one, NoSeat when there is none.
OpponentIdOf(gs) ==
  LET others == SelectSeq(gs.players,
                          LAMBDA p : p.id # gs.currentPlayerTurnId /\ p.type # "none")
  IN IF others = << >> THEN NoSeat ELSE others[1].id

\* Lines 162-164 and 251-253: every ship of the opponent's board is sunk.
allOpponentShipsSunk(updatedGameState, opponentId) ==
  \A k \in 1 .. Len(updatedGameState.playerBoards[opponentId].placedShips) :
     updatedGameState.playerBoards[opponentId].placedShips[k].isSunk

\* The state after the given turns, each taken by the seat to move at the
\* board of its opponentPlayer and followed by advanceTurn.
RECURSIVE PlayTurns(_, _)
PlayTurns(gs, coords) ==
  IF coords = << >> \/ gs.phase # "in-game" \/ AdvanceTurnThrows(gs) THEN gs
  ELSE LET target == OpponentIdOf(gs)
           shot == IF AttackRejected(gs, target, Head(coords)) THEN gs
                   ELSE AttackUpdater(gs, target, Head(coords)).state
       IN IF shot.phase # "in-game" \/ AdvanceTurnThrows(shot) THEN shot
          ELSE PlayTurns(advanceTurn(shot), Tail(coords))

\* The shots of the first turns of a game: a miss, then hits.
OpeningCoords == << Coord(0, 1), Coord(0, 0), Coord(1, 0), Coord(0, 0) >>

\* Lines 113-197 and 206-265: the call of handleAttack, the judgement of
\* lines 158-184 on gameStateRef.current, which the call has not refreshed,
\* and the update the judgement queues behind the one of handleAttack.
AttackAndJudge(attackerId, opponentId, coord, eager) ==
  LET rejected == AttackRejected(gameStateRef, opponentId, coord)
      updated == AttackUpdater(gameState, opponentId, coord)
      attacked == IF rejected THEN gameState ELSE updated.state
  IN /\ pending' = IF rejected THEN pending ELSE pending + 1
     /\ lastAttack' =
          [ called |-> TRUE, attackerId |-> attackerId,
            targetPlayerId |-> opponentId, coord |-> coord,
            queued |-> ~rejected,
            result |-> IF rejected \/ ~eager THEN NoResult ELSE updated.result ]
     /\ attackCalls' = attackCalls + 1
     /\ IF allOpponentShipsSunk(gameStateRef, opponentId)
          THEN /\ gameState' = [attacked EXCEPT !.phase = "game-over",
                                                !.winnerId = attackerId]
               /\ UNCHANGED appError
          ELSE IF AdvanceTurnThrows(attacked)
            THEN /\ gameState' = attacked
                 /\ appError' = TRUE
            ELSE /\ gameState' = advanceTurn(attacked)
                 /\ UNCHANGED appError

\* Lines 200-276: a click on a cell of the opponent's board, offered while
\* the seat to move is human (line 351).  A resolved cell is refused.
HandleHumanAttackJudged ==
  /\ ~appError
  /\ gameState.phase = "in-game"
  /\ gameStateRef = gameState
  /\ attackCalls < MaxShots
  /\ ~isAttackOngoing
  /\ OpponentIdOf(gameState) # NoSeat
  /\ HasBoard(gameState, OpponentIdOf(gameState))
  /\ currentPlayer.type = "human"
  /\ \E coord \in Coordinate, eager \in BOOLEAN :
        IF gameState.playerBoards[OpponentIdOf(gameState)].cells[coord].status
             \in {"hit", "miss", "sunk"}
          THEN UNCHANGED << gameState, pending, attackCalls, lastAttack, appError >>
          ELSE AttackAndJudge(gameState.currentPlayerTurnId, OpponentIdOf(gameState),
                              coord, eager)
  /\ UNCHANGED << gameStateRef, aiBoard, placement, trial, isAttackOngoing, aiTurns >>

\* Lines 99-197, run by the timer of lines 278-293 when the seat to move is
\* an AI: the coordinate is the one getAiAttackCoordinate returns for the
\* difficulty 'easy' (the seats carry no difficulty, line 126), a random
\* open cell of the opponent's board in gameStateRef.current.  With no open
\* cell the handler stops at the call and the flag stays set.
HandleAiAttackJudged ==
  /\ ~appError
  /\ gameState.phase = "in-game"
  /\ gameStateRef = gameState
  /\ attackCalls < MaxShots
  /\ ~isAttackOngoing
  /\ OpponentIdOf(gameState) # NoSeat
  /\ HasBoard(gameState, OpponentIdOf(gameState))
  /\ currentPlayer.type = "ai"
  /\ LET currentOpponentBoard == gameStateRef.playerBoards[OpponentIdOf(gameState)]
         open == { c \in Coordinate :
                     currentOpponentBoard.cells[c].status \in {"empty", "ship"} }
     IN IF open = {}
          THEN /\ isAttackOngoing' = TRUE
               /\ UNCHANGED << gameState, pending, attackCalls, lastAttack, appError >>
          ELSE /\ \E attackCoord \in open, eager \in BOOLEAN :
                     AttackAndJudge(currentPlayer.id, OpponentIdOf(gameState),
                                    attackCoord, eager)
               /\ UNCHANGED isAttackOngoing
  /\ UNCHANGED << gameStateRef, aiBoard, placement, trial, aiTurns >>

\* The screen at the start of combat and after the opening turns.
InitDriver ==
  /\ gameState \in { StartOf(types) : types \in DriverConfigs }
                   \cup { PlayTurns(StartOf(types), OpeningCoords) : types \in DriverConfigs }
  /\ gameStateRef = gameState
  /\ pending = 0
  /\ attackCalls = 0
  /\ lastAttack = NoAttack
  /\ appError = FALSE
  /\ aiBoard = NewAiBoard(AiLayouts[1])
  /\ placement = NoPlacement
  /\ trial = NoTrial
  /\ isAttackOngoing = FALSE
  /\ aiTurns = {}

NextDriver ==
  \/ HandleHumanAttackJudged
  \/ HandleAiAttackJudged
  \/ RefreshRef

SpecDriver == InitDriver /\ [][NextDriver]_vars

\* ------------------------------------------------------------------------
\* Provider that records shots on the attacker's board
\* (GameContext.tsx, lines 692-893)
\* ------------------------------------------------------------------------
\* Lines 812-888: the updater handed to setGameState.  A cell whose status
\* is hit or miss leaves the state as it is; otherwise the cell and the hit
\* ship change on the target's board, the shot is entered in attackedCells
\* of the attacker's board, and the game is over, won by the attacker, when
\* every ship of the target is sunk.
recordedAttack(prev, attackerId, targetPlayerId, coord) ==
  LET targetBoard == prev.playerBoards[targetPlayerId]
      attackerBoard == prev.playerBoards[attackerId]
      cellToAttack == targetBoard.cells[coord]
      isHit == cellToAttack.status = "ship"
      newStatus == IF isHit THEN "hit" ELSE "miss"
      shipIndex == IF isHit THEN ShipIndex(targetBoard.placedShips, cellToAttack.shipId)
                   ELSE 0
      updatedPlacedShips ==
        IF shipIndex = 0 THEN targetBoard.placedShips
        ELSE [targetBoard.placedShips EXCEPT
                ![shipIndex] = HitShip(targetBoard.placedShips[shipIndex], coord)]
      newTargetBoard == [targetBoard EXCEPT !.cells[coord].status = newStatus,
                                            !.placedShips = updatedPlacedShips]
      newAttackerBoard == [attackerBoard EXCEPT !.attackedCells[coord] = newStatus]
      newPlayerBoards == [prev.playerBoards EXCEPT ![targetPlayerId] = newTargetBoard,
                                                   ![attackerId] = newAttackerBoard]
      allShipsSunk == \A k \in 1 .. Len(updatedPlacedShips) : updatedPlacedShips[k].isSunk
  IN IF cellToAttack.status \in {"hit", "miss"} THEN prev
     ELSE IF allShipsSunk
       THEN [prev EXCEPT !.playerBoards = newPlayerBoards,
                         !.winnerId = attackerId,
                         !.phase = "game-over"]
       ELSE [prev EXCEPT !.playerBoards = newPlayerBoards]

\* Lines 804-893: one call of handleAttack by the seat to move at a cell of
\* another active seat's board.
HandleAttackRecorded ==
  /\ gameState.phase = "in-game"
  /\ attackCalls < MaxShots
  /\ \E targetPlayerId \in ActiveIds(gameState) \ {gameState.currentPlayerTurnId},
        coord \in Coordinate :
        LET attackerId == gameState.currentPlayerTurnId
            cell == gameState.playerBoards[targetPlayerId].cells[coord]
        IN /\ gameState' = recordedAttack(gameState, attackerId, targetPlayerId, coord)
           /\ lastAttack' =
                [ called |-> TRUE, attackerId |-> attackerId,
                  targetPlayerId |-> targetPlayerId, coord |-> coord,
                  queued |-> TRUE,
                  result |-> [NoResult EXCEPT !.hit = (cell.status = "ship")] ]
  /\ gameStateRef' = gameState'
  /\ attackCalls' = attackCalls + 1
  /\ UNCHANGED << pending, appError, aiBoard, placement, trial, isAttackOngoing, aiTurns >>

\* Lines 778-801: advanceTurn passes the turn to the next active seat.
AdvanceTurnRecorded ==
  /\ gameState.phase = "in-game"
  /\ ActivePlayers(gameState) # << >>
  /\ gameState' = [gameState EXCEPT !.currentPlayerTurnId = NextPlayerId(gameState)]
  /\ gameStateRef' = gameState'
  /\ UNCHANGED << pending, attackCalls, lastAttack, appError, aiBoard, placement, trial,
                  isAttackOngoing, aiTurns >>

\* Combat starts with every fleet stored.
InitRecorded ==
  /\ gameState \in { StartOf(types) : types \in MultiSeatConfigs }
  /\ gameStateRef = gameState
  /\ pending = 0
  /\ attackCalls = 0
  /\ lastAttack = NoAttack
  /\ appError = FALSE
  /\ aiBoard = NewAiBoard(AiLayouts[1])
  /\ placement = NoPlacement
  /\ trial = NoTrial
  /\ isAttackOngoing = FALSE
  /\ aiTurns = {}

NextRecorded ==
  \/ HandleAttackRecorded
  \/ AdvanceTurnRecorded

SpecRecorded == InitRecorded /\ [][NextRecorded]_vars

\* ------------------------------------------------------------------------
\* Game screen without the attack flag (src/unnamed/part_010, lines 9-206)
\* ------------------------------------------------------------------------
\* Every callback of this screen runs after the render of the state the
\* previous one produced, so the provider's ref holds the current state
\* whenever handleAttack is called.  Delays are counted in units of 500 ms:
\* the thinking delay of line 111 is two units, the timer of lines 167-171
\* one.

\* The delay of line 111 and that of line 171.
ThinkingDelay == 2
TurnDelay == 1

\* Lines 104-108 and 174: the effect run after the render of gs; when the
\* phase is in-game and the seat to move is not human it starts aiAttack,
\* whose closure holds the seat, its opponent, the attackedCells of myBoard
\* and the rendered boards (of which checkGameOver reads whether every ship
\* of the opponent is sunk).
aiEffect(gs) ==
  LET id == gs.currentPlayerTurnId
      opp == OpponentIdOf(gs)
  IN IF /\ gs.phase = "in-game"
        /\ id \in ActiveIds(gs)
        /\ gs.players[id + 1].type # "human"
        /\ HasBoard(gs, id)
       THEN { [ pc |-> "thinking", due |-> ThinkingDelay, attackerId |-> id,
                opponentId |-> opp,
                attackedCells |-> gs.playerBoards[id].attackedCells,
                allOpponentShipsSunk |->
                  IF opp = NoSeat THEN FALSE ELSE allOpponentShipsSunk(gs, opp) ] }
       ELSE {}

\* The effect runs when the render changed one of its dependencies, which
\* every change of the boards or of the seat to move does (line 176).
EffectAfter(old, new) == IF new = old THEN {} ELSE aiEffect(new)

\* The closures whose delay expires first.
DueFirst == { t \in aiTurns : \A u \in aiTurns : t.due <= u.due }

\* The other closures once the delay of t has passed.
Elapse(t) == { [u EXCEPT !.due = u.due - t.due] : u \in aiTurns \ {t} }

\* One call of advanceTurn on the state gs, and the effect after it.
AdvanceFrom(gs, others) ==
  IF AdvanceTurnThrows(gs)
    THEN /\ appError' = TRUE
         /\ gameState' = gs
         /\ aiTurns' = others
    ELSE /\ gameState' = advanceTurn(gs)
         /\ aiTurns' = others \cup EffectAfter(gameState, advanceTurn(gs))
         /\ UNCHANGED appError

\* Lines 64-99: a click on a cell of the opponent's board by a human seat.
\* The winner is judged on the opponentBoard the handler's closure holds,
\* the board before the shot.
HandleOpponentBoardClick ==
  /\ ~appError
  /\ gameState.phase = "in-game"
  /\ attackCalls < MaxShots
  /\ currentPlayer.type = "human"
  /\ OpponentIdOf(gameState) # NoSeat
  /\ HasBoard(gameState, OpponentIdOf(gameState))
  /\ \E coord \in Coordinate :
        LET opp == OpponentIdOf(gameState)
            rejected == AttackRejected(gameState, opp, coord)
            updated == AttackUpdater(gameState, opp, coord)
            attacked == IF rejected THEN gameState ELSE updated.state
        IN /\ myBoard.attackedCells[coord] = "none"
           /\ lastAttack' =
                [ called |-> TRUE, attackerId |-> currentPlayer.id,
                  targetPlayerId |-> opp, coord |-> coord, queued |-> ~rejected,
                  result |-> IF rejected THEN NoResult ELSE updated.result ]
           /\ IF allOpponentShipsSunk(gameState, opp)
                THEN /\ gameState' = attacked
                     /\ aiTurns' = aiTurns \cup EffectAfter(gameState, attacked)
                     /\ UNCHANGED appError
                ELSE AdvanceFrom(attacked, aiTurns)
  /\ gameStateRef' = gameState'
  /\ attackCalls' = attackCalls + 1
  /\ UNCHANGED << pending, aiBoard, placement, trial, isAttackOngoing >>

\* Lines 110-149: aiAttack after its thinking delay.  Without an opponent,
\* or when the draws are used up, it passes the turn; otherwise it calls
\* handleAttack with the seat and the opponent of its closure and arms the
\* timer of line 167.
AiAttack010 ==
  /\ ~appError
  /\ \E t \in DueFirst :
        /\ t.pc = "thinking"
        /\ IF t.opponentId = NoSeat \/ ~HasBoard(gameState, t.opponentId)
             THEN /\ AdvanceFrom(gameState, Elapse(t))
                  /\ UNCHANGED << attackCalls, lastAttack >>
             ELSE \E targetCoord \in AIAttackCoordFrom(t.attackedCells, 0) :
                    IF targetCoord = << >>
                      THEN /\ AdvanceFrom(gameState, Elapse(t))
                           /\ UNCHANGED << attackCalls, lastAttack >>
                      ELSE LET rejected == AttackRejected(gameState, t.opponentId,
                                                          targetCoord[1])
                               updated == AttackUpdater(gameState, t.opponentId,
                                                        targetCoord[1])
                               attacked == IF rejected THEN gameState ELSE updated.state
                           IN /\ attackCalls < MaxShots
                              /\ gameState' = attacked
                              /\ lastAttack' =
                                   [ called |-> TRUE, attackerId |-> t.attackerId,
                                     targetPlayerId |-> t.opponentId,
                                     coord |-> targetCoord[1], queued |-> ~rejected,
                                     result |-> IF rejected THEN NoResult
                                                ELSE updated.result ]
                              /\ attackCalls' = attackCalls + 1
                              /\ aiTurns' = Elapse(t)
                                   \cup { [t EXCEPT !.pc = "timer", !.due = TurnDelay] }
                                   \cup EffectAfter(gameState, attacked)
                              /\ UNCHANGED appError
  /\ gameStateRef' = gameState'
  /\ UNCHANGED << pending, aiBoard, placement, trial, isAttackOngoing >>

\* Lines 155-171: the timer armed after the shot calls advanceTurn unless
\* the boards of its closure show every ship of the opponent sunk.
AiTurnTimer010 ==
  /\ ~appError
  /\ \E t \in DueFirst :
        /\ t.pc = "timer"
        /\ IF t.allOpponentShipsSunk
             THEN /\ aiTurns' = Elapse(t)
                  /\ UNCHANGED << gameState, appError >>
             ELSE AdvanceFrom(gameState, Elapse(t))
  /\ gameStateRef' = gameState'
  /\ UNCHANGED << pending, attackCalls, lastAttack, aiBoard, placement, trial,
                  isAttackOngoing >>

\* The screen is mounted on the state in which combat starts, or on a late
\* position; its effect runs once.
Init010 ==
  /\ gameState \in { StartOf(types) : types \in ScreenConfigs }
                   \cup { LateOf(types) : types \in ScreenConfigs }
  /\ gameStateRef = gameState
  /\ pending = 0
  /\ attackCalls = 0
  /\ lastAttack = NoAttack
  /\ appError = FALSE
  /\ aiBoard = NewAiBoard(AiLayouts[1])
  /\ placement = NoPlacement
  /\ trial = NoTrial
  /\ isAttackOngoing = FALSE
  /\ aiTurns = aiEffect(gameState)

Next010 ==
  \/ HandleOpponentBoardClick
  \/ AiAttack010
  \/ AiTurnTimer010

Spec010 == Init010 /\ [][Next010]_vars

\* ------------------------------------------------------------------------
\* Provider that refuses shots by the attacker's own record
\* (GameContext.tsx, lines 393-569; the same code is src/unnamed/part_000)
\* ------------------------------------------------------------------------
\* Lines 519-525: the hit ship; the coordinate is appended to hits unless
\* it is there already, and isSunk is recomputed from the number of hits.
HitShipOnce(ship, coord) ==
  LET present == \E i \in 1 .. Len(ship.hits) : ship.hits[i] = coord
      newHits == IF present THEN ship.hits ELSE Append(ship.hits, coord)
  IN [ship EXCEPT !.hits = newHits,
                  !.isSunk = (Len(newHits) = ship.definition.size)]

\* Lines 503-566: the updater handed to setGameState, with the value it
\* leaves in currentAttackResult.  The shot is refused when the attacker's
\* own attackedCells holds the coordinate; otherwise a cell of status ship
\* is a hit and any other cell a miss, the cells of a sunk ship are set to
\* sunk before the fired cell is set to hit (lines 529-541), the shot is
\* entered on the attacker's board, and the game is over, won by the
\* attacker, when every ship of the target is sunk.
ledgerAttack(prev, attackerId, targetPlayerId, coord) ==
  LET targetBoard == prev.playerBoards[targetPlayerId]
      attackingPlayerBoard == prev.playerBoards[attackerId]
      cell == targetBoard.cells[coord]
      isHit == cell.status = "ship"
      shipIndex == IF isHit THEN ShipIndex(targetBoard.placedShips, cell.shipId) ELSE 0
      hitShip == HitShipOnce(targetBoard.placedShips[shipIndex], coord)
      newPlacedShips == IF shipIndex = 0 THEN targetBoard.placedShips
                        ELSE [targetBoard.placedShips EXCEPT ![shipIndex] = hitShip]
      sunkNow == shipIndex # 0 /\ hitShip.isSunk
      cells1 == IF sunkNow THEN MarkSunk(targetBoard.cells, hitShip, 0)
                ELSE targetBoard.cells
      newCells == [cells1 EXCEPT ![coord].status = IF isHit THEN "hit" ELSE "miss"]
      newTargetBoard == [targetBoard EXCEPT !.cells = newCells,
                                            !.placedShips = newPlacedShips]
      newAttackerBoard ==
        [attackingPlayerBoard EXCEPT
           !.attackedCells[coord] = IF isHit THEN "hit" ELSE "miss"]
      updatedPlayerBoards ==
        [prev.playerBoards EXCEPT ![targetPlayerId] = newTargetBoard,
                                  ![attackerId] = newAttackerBoard]
      everyShipSunk ==
        \A k \in 1 .. Len(newPlacedShips) : newPlacedShips[k].isSunk
  IN IF attackingPlayerBoard.attackedCells[coord] # "none"
       THEN [ state |-> prev,
              result |-> [NoResult EXCEPT !.alreadyAttacked = TRUE] ]
       ELSE [ state |-> IF everyShipSunk
                          THEN [prev EXCEPT !.playerBoards = updatedPlayerBoards,
                                            !.phase = "game-over",
                                            !.winnerId = attackerId]
                          ELSE [prev EXCEPT !.playerBoards = updatedPlayerBoards],
              result |-> [NoResult EXCEPT
                            !.hit = isHit,
                            !.sunkShipId = IF sunkNow THEN hitShip.id ELSE Undefined] ]

\* Lines 500-569: one call of handleAttack by the seat to move at a cell of
\* another active seat's board.  The call returns currentAttackResult,
\* which holds the updater's values only when React ran the updater before
\* the call returned (eager) and is { hit: false } otherwise.
HandleAttackLedger ==
  /\ gameState.phase = "in-game"
  /\ attackCalls < MaxShots
  /\ \E targetPlayerId \in ActiveIds(gameState) \ {gameState.currentPlayerTurnId},
        coord \in Coordinate, eager \in BOOLEAN :
        LET attackerId == gameState.currentPlayerTurnId
            updated == ledgerAttack(gameState, attackerId, targetPlayerId, coord)
        IN /\ gameState' = updated.state
           /\ lastAttack' =
                [ called |-> TRUE, attackerId |-> attackerId,
                  targetPlayerId |-> targetPlayerId, coord |-> coord,
                  queued |-> TRUE,
                  result |-> IF eager THEN updated.result ELSE NoResult ]
  /\ gameStateRef' = gameState'
  /\ attackCalls' = attackCalls + 1
  /\ UNCHANGED << pending, appError, aiBoard, placement, trial, isAttackOngoing, aiTurns >>

\* Lines 472-498: advanceTurn passes the turn to the next active seat.
AdvanceTurnLedger ==
  /\ gameState.phase = "in-game"
  /\ ActivePlayers(gameState) # << >>
  /\ gameState' = [gameState EXCEPT !.currentPlayerTurnId = NextPlayerId(gameState)]
  /\ gameStateRef' = gameState'
  /\ UNCHANGED << pending, attackCalls, lastAttack, appError, aiBoard, placement, trial,
                  isAttackOngoing, aiTurns >>

\* Combat starts with every fleet stored.
InitLedger ==
  /\ gameState \in { StartOf(types) : types \in MultiSeatConfigs }
  /\ gameStateRef = gameState
  /\ pending = 0
  /\ attackCalls = 0
  /\ lastAttack = NoAttack
  /\ appError = FALSE
  /\ aiBoard = NewAiBoard(AiLayouts[1])
  /\ placement = NoPlacement
  /\ trial = NoTrial
  /\ isAttackOngoing = FALSE
  /\ aiTurns = {}

NextLedger ==
  \/ HandleAttackLedger
  \/ AdvanceTurnLedger

SpecLedger == InitLedger /\ [][NextLedger]_vars

\* ------------------------------------------------------------------------
\* Placement screen that keeps its own placement turn
\* (ShipPlacement.tsx, lines 13-306, under the App of App.tsx, lines 58-90,
\* and the provider of GameContext.tsx, lines 393-569)
\* ------------------------------------------------------------------------
\* The seat configurations this screen is driven through: a computer seat
\* before and after the first human seat, and computer seats only.
PlacementConfigs ==
  { << "human", "ai", "none", "none" >>,
    << "ai", "human", "none", "none" >>,
    << "ai", "ai", "human", "none" >>,
    << "ai", "none", "ai", "none" >> }

\* GameContext.tsx 394-420: the state the provider is constructed with.
InitialLedgerState == [InitialGameState EXCEPT !.currentPlayerTurnId = NoSeat]

\* GameContext.tsx 428-442: updatePlayers keeps the boards of the seats
\* that stay active and gives each new active seat an empty board without
\* ships.
updatePlayersLedger(prev, newPlayers) ==
  LET activeSeats == { newPlayers[i].id : i \in { j \in 1 .. NumPlayers : newPlayers[j].type # "none" } }
  IN [prev EXCEPT !.players = newPlayers,
                  !.playerBoards =
                     [p \in activeSeats |->
                        IF HasBoard(prev, p) THEN prev.playerBoards[p]
                        ELSE NewPlayerBoard(p)]]

\* GameContext.tsx 444-470: advancePhase sets the phase it is given, with
\* the turn at the first active seat for ship-placement and in-game and at
\* no seat otherwise.  It tests nothing else.
advancePhase(prev, newPhase) ==
  [prev EXCEPT !.phase = newPhase,
               !.currentPlayerTurnId =
                  IF newPhase \in {"in-game", "ship-placement"}
                    THEN FirstActiveId(prev.players)
                    ELSE NoSeat]

\* The local state of the screen when it mounts (lines 19-29), and the
\* seats the screen has shown as the seat to place.
OwnTurnPlacement ==
  [ currentPlacementPlayerId |-> NoSeat, errorMessage |-> Undefined,
    turns |-> {} ]

\* Lines 38-45: the ships of a board still carrying the start x = -1 of an
\* unplaced ship, and the others.
unplacedShips(gs, id) ==
  IF HasBoard(gs, id)
    THEN SelectSeq(gs.playerBoards[id].placedShips, LAMBDA s : s.start.x = -1)
    ELSE << >>

shipsOnBoard(gs, id) ==
  IF HasBoard(gs, id)
    THEN SelectSeq(gs.playerBoards[id].placedShips, LAMBDA s : s.start.x # -1)
    ELSE << >>

\* Lines 74-77 and 293-298: no ship of any active seat's list is unplaced.
allPlayersAllShipsPlaced(gs) ==
  \A k \in 1 .. Len(ActivePlayers(gs)) :
     LET id == ActivePlayers(gs)[k].id
     IN /\ HasBoard(gs, id)
        /\ \A j \in 1 .. Len(gs.playerBoards[id].placedShips) :
              gs.playerBoards[id].placedShips[j].start.x # -1

\* Lines 102-121 and 232-250: the ship of the same id replaced in the list
\* and the grid rebuilt from the list.
StoreShip(gs, id, ship) ==
  LET board == gs.playerBoards[id]
      updatedPlacedShips ==
        [k \in 1 .. Len(board.placedShips) |->
           IF board.placedShips[k].id = ship.id THEN ship ELSE board.placedShips[k]]
  IN [gs EXCEPT !.playerBoards[id] =
        [board EXCEPT !.placedShips = updatedPlacedShips,
                      !.cells = updateCellsWithShips(createEmptyBoard, updatedPlacedShips)]]

\* Lines 86-127: the states the loop of placeAllAIShips can leave, one
\* random placement per unplaced ship, a failed placement changing nothing.
RECURSIVE placeAllAIShips(_, _, _)
placeAllAIShips(gs, id, ships) ==
  IF ships = << >> THEN { gs }
  ELSE UNION
         { placeAllAIShips(IF drawn = << >> THEN gs ELSE StoreShip(gs, id, drawn[1]),
                           id, Tail(ships)) :
             drawn \in placeShipRandomly(Head(ships).definition, shipsOnBoard(gs, id)) }

\* Lines 133-141 and 260-266: the seat after the given one in the list of
\* active seats, none after the last.
SeatAfter(gs, id) ==
  LET currentIndex == FindIndex(ActivePlayers(gs), id)
  IN IF currentIndex + 1 < Len(ActivePlayers(gs))
       THEN ActivePlayers(gs)[currentIndex + 2].id
       ELSE NoSeat

\* Lines 54-60: the seat the screen starts with, the first human seat and,
\* without one, the first active seat.
FirstSeatToPlace(gs) ==
  LET humans == SelectSeq(ActivePlayers(gs), LAMBDA p : p.type = "human")
  IN IF humans # << >> THEN humans[1].id ELSE FirstActiveId(gs.players)

MoveOn(next) ==
  IF next = NoSeat THEN placement
  ELSE [placement EXCEPT !.currentPlacementPlayerId = next,
                         !.turns = @ \cup {next}]

\* App.tsx 71-73: the player selector reports the chosen seats.
SelectPlayers ==
  /\ gameState.phase = "select-players"
  /\ \E types \in PlacementConfigs :
        gameState' = updatePlayersLedger(gameState, MakePlayers(types))
  /\ gameStateRef' = gameState'
  /\ UNCHANGED << pending, attackCalls, lastAttack, appError, aiBoard, placement, trial,
                  isAttackOngoing, aiTurns >>

\* App.tsx 67-69: the "next" button opens the placement screen.
OpenPlacement ==
  /\ gameState.phase = "select-players"
  /\ gameState' = advancePhase(gameState, "ship-placement")
  /\ gameStateRef' = gameState'
  /\ placement' = OwnTurnPlacement
  /\ UNCHANGED << pending, attackCalls, lastAttack, appError, aiBoard, trial,
                  isAttackOngoing, aiTurns >>

\* Lines 48-146: the effects that run after the screen has rendered.  The
\* first sets the seat to place when none is set; the second, for a
\* computer seat with unplaced ships, places them and moves on to the seat
\* after it.
PlacementEffects ==
  /\ gameState.phase = "ship-placement"
  /\ LET id == placement.currentPlacementPlayerId
     IN IF id = NoSeat \/ id \notin ActiveIds(gameState)
          THEN /\ ActivePlayers(gameState) # << >>
               /\ placement' = MoveOn(FirstSeatToPlace(gameState))
               /\ gameState' = gameState
          ELSE /\ ~allPlayersAllShipsPlaced(gameState)
               /\ gameState.players[id + 1].type = "ai"
               /\ unplacedShips(gameState, id) # << >>
               /\ gameState' \in placeAllAIShips(gameState, id, unplacedShips(gameState, id))
               /\ placement' = MoveOn(SeatAfter(gameState, id))
  /\ gameStateRef' = gameState'
  /\ UNCHANGED << pending, attackCalls, lastAttack, appError, aiBoard, trial,
                  isAttackOngoing, aiTurns >>

\* Lines 190-271: a click on a cell of the board of a human seat.  The ship
\* placed is the selected one, which lines 150-157 keep at the first
\* unplaced ship; without one the click only reports an error.
PlaceByClick ==
  /\ gameState.phase = "ship-placement"
  /\ placement.currentPlacementPlayerId \in ActiveIds(gameState)
  /\ gameState.players[placement.currentPlacementPlayerId + 1].type = "human"
  /\ \E coord \in Coordinate, currentOrientation \in {"horizontal", "vertical"} :
        LET id == placement.currentPlacementPlayerId
            waiting == unplacedShips(gameState, id)
        IN IF waiting = << >>
             THEN /\ placement' = [placement EXCEPT !.errorMessage = "no ship selected"]
                  /\ gameState' = gameState
             ELSE IF ~isValidPlacement(waiting[1].definition, coord, currentOrientation,
                                       shipsOnBoard(gameState, id))
               THEN /\ placement' = [placement EXCEPT !.errorMessage = "invalid position"]
                    /\ gameState' = gameState
               ELSE /\ gameState' =
                         StoreShip(gameState, id,
                                   PlacedShip(waiting[1].definition, coord, currentOrientation))
                    /\ placement' =
                         IF Len(waiting) = 1
                           THEN [MoveOn(SeatAfter(gameState, id)) EXCEPT
                                   !.errorMessage = Undefined]
                           ELSE [placement EXCEPT !.errorMessage = Undefined]
  /\ gameStateRef' = gameState'
  /\ UNCHANGED << pending, attackCalls, lastAttack, appError, aiBoard, trial,
                  isAttackOngoing, aiTurns >>

\* Lines 300-306 and 388: the start button, enabled when no ship of any
\* active seat's list is unplaced, asks the provider for the in-game phase.
HandleGameStart ==
  /\ gameState.phase = "ship-placement"
  /\ placement.currentPlacementPlayerId \in ActiveIds(gameState)
  /\ allPlayersAllShipsPlaced(gameState)
  /\ gameState' = advancePhase(gameState, "in-game")
  /\ gameStateRef' = gameState'
  /\ UNCHANGED << pending, attackCalls, lastAttack, appError, aiBoard, placement, trial,
                  isAttackOngoing, aiTurns >>

InitOwnTurn ==
  /\ gameState = InitialLedgerState
  /\ gameStateRef = gameState
  /\ pending = 0
  /\ attackCalls = 0
  /\ lastAttack = NoAttack
  /\ appError = FALSE
  /\ aiBoard = NewAiBoard(AiLayouts[1])
  /\ placement = OwnTurnPlacement
  /\ trial = NoTrial
  /\ isAttackOngoing = FALSE
  /\ aiTurns = {}

NextOwnTurn ==
  \/ SelectPlayers
  \/ OpenPlacement
  \/ PlacementEffects
  \/ PlaceByClick
  \/ HandleGameStart
  \/ HandleAttackLedger
  \/ AdvanceTurnLedger

SpecOwnTurn == InitOwnTurn /\ [][NextOwnTurn]_vars

\* ------------------------------------------------------------------------
\* AI turns on boards of every layout
\* ------------------------------------------------------------------------
\* The layouts of both specifications above.
AllAiLayouts == { AiLayouts[i] : i \in 1 .. Len(AiLayouts) } \cup { AdjacentLayout }

InitAiPair ==
  /\ gameState = InitialGameState
  /\ gameStateRef = InitialGameState
  /\ pending = 0
  /\ attackCalls = 0
  /\ lastAttack = NoAttack
  /\ appError = FALSE
  /\ \E layout \in AllAiLayouts : aiBoard = NewAiBoard(layout)
  /\ placement = NoPlacement
  /\ trial = NoTrial
  /\ isAttackOngoing = FALSE
  /\ aiTurns = {}

SpecAiPair == InitAiPair /\ [][NextAi]_vars

\* ------------------------------------------------------------------------
\* Provider whose handleAttack fires at every opponent
\* (src/unnamed/part_002, lines 154-313)
\* ------------------------------------------------------------------------
\* Calls of handleAttack explored per game.
MaxBroadcasts == 4

\* Lines 232-238: the cells of the sunk ship that are hit become sunk.
RECURSIVE MarkSunkWhereHit(_, _, _)
MarkSunkWhereHit(cells, ship, i) ==
  IF i >= ship.definition.size THEN cells
  ELSE MarkSunkWhereHit(
         IF cells[ShipCell(ship, i)].status = "hit"
           THEN [cells EXCEPT ![ShipCell(ship, i)].status = "sunk"]
           ELSE cells,
         ship, i + 1)

\* Lines 200-251: the shot on the board of one target.  A coordinate the
\* board's attackedCells holds is skipped; a cell of status ship becomes
\* hit, its ship takes the hit and is sunk with its last one; any other
\* cell becomes miss.
broadcastOnBoard(targetPlayerBoard, coord) ==
  LET attackedCell == targetPlayerBoard.cells[coord]
      isHit == attackedCell.status = "ship"
      outcome == IF isHit THEN "hit" ELSE "miss"
      shipIndex == IF isHit THEN ShipIndex(targetPlayerBoard.placedShips, attackedCell.shipId)
                   ELSE 0
      targetShip == targetPlayerBoard.placedShips[shipIndex]
      newHits == Append(targetShip.hits, coord)
      struck == [targetShip EXCEPT
                   !.hits = newHits,
                   !.isSunk = IF Len(newHits) = targetShip.definition.size THEN TRUE ELSE @]
      newPlacedShips == IF shipIndex = 0 THEN targetPlayerBoard.placedShips
                        ELSE [targetPlayerBoard.placedShips EXCEPT ![shipIndex] = struck]
      cells1 == [targetPlayerBoard.cells EXCEPT ![coord].status = outcome]
      newCells == IF shipIndex # 0 /\ Len(newHits) = targetShip.definition.size
                    THEN MarkSunkWhereHit(cells1, struck, 0)
                    ELSE cells1
  IN IF targetPlayerBoard.attackedCells[coord] # "none"
       THEN targetPlayerBoard
       ELSE [targetPlayerBoard EXCEPT !.cells = newCells,
                                      !.placedShips = newPlacedShips,
                                      !.attackedCells[coord] = outcome]

\* Lines 197-254: the shot on the boards of the target seats, every active
\* seat but the attacker, in the order of the players list.
RECURSIVE broadcastOver(_, _, _)
broadcastOver(boards, targetPlayers, coord) ==
  IF targetPlayers = << >> THEN boards
  ELSE broadcastOver(
         [boards EXCEPT ![Head(targetPlayers).id] = broadcastOnBoard(@, coord)],
         Tail(targetPlayers), coord)

\* Lines 192-309: the updater of handleAttack(attackerId, coord).  After
\* the shots the seats with an unsunk ship are counted: one is the winner,
\* none ends the game without a winner, and otherwise the turn passes to the
\* seat after the current one among them.
broadcastAttack(prevGameState, attackerId, coord) ==
  LET targetPlayers ==
        SelectSeq(prevGameState.players,
                  LAMBDA p : p.id # attackerId /\ p.type # "none")
      newPlayerBoards == broadcastOver(prevGameState.playerBoards, targetPlayers, coord)
      alivePlayers ==
        SelectSeq(prevGameState.players,
                  LAMBDA p : /\ p.type # "none"
                             /\ p.id \in DOMAIN newPlayerBoards
                             /\ ~checkAllShipsSunk(newPlayerBoards[p.id]))
      currentIndex == FindIndex(alivePlayers, prevGameState.currentPlayerTurnId)
      nextIndex == (currentIndex + 1) % Len(alivePlayers)
  IN IF Len(alivePlayers) = 1
       THEN [prevGameState EXCEPT !.playerBoards = newPlayerBoards,
                                  !.phase = "game-over",
                                  !.winnerId = alivePlayers[1].id,
                                  !.currentPlayerTurnId = NoSeat]
     ELSE IF Len(alivePlayers) = 0
       THEN [prevGameState EXCEPT !.playerBoards = newPlayerBoards,
                                  !.phase = "game-over",
                                  !.winnerId = NoSeat,
                                  !.currentPlayerTurnId = NoSeat]
     ELSE [prevGameState EXCEPT !.playerBoards = newPlayerBoards,
                                !.winnerId = NoSeat,
                                !.currentPlayerTurnId = alivePlayers[nextIndex + 1].id]

\* Lines 168-176: the loop of advanceTurn, from the given index (0-based)
\* on; it passes over the seats whose ships are all sunk, at most once per
\* active seat.
RECURSIVE SkipSunk(_, _, _, _)
SkipSunk(prev, activePlayers, nextIndex, attempts) ==
  IF /\ HasBoard(prev, activePlayers[nextIndex + 1].id)
     /\ checkAllShipsSunk(prev.playerBoards[activePlayers[nextIndex + 1].id])
     /\ attempts < Len(activePlayers)
    THEN SkipSunk(prev, activePlayers, (nextIndex + 1) % Len(activePlayers), attempts + 1)
    ELSE [nextIndex |-> nextIndex, attempts |-> attempts]

\* Lines 155-184: the updater of advanceTurn.
advanceTurnBounded(prev) ==
  LET activePlayers == ActivePlayers(prev)
      currentIndex == FindIndex(activePlayers, prev.currentPlayerTurnId)
      stop == SkipSunk(prev, activePlayers, (currentIndex + 1) % Len(activePlayers), 0)
  IN IF activePlayers = << >> THEN prev
     ELSE IF stop.attempts = Len(activePlayers)
       THEN [prev EXCEPT !.phase = "game-over", !.winnerId = NoSeat]
     ELSE [prev EXCEPT !.currentPlayerTurnId = activePlayers[stop.nextIndex + 1].id]

\* Lines 189-313: one call of handleAttack by the seat to move.
HandleAttackBroadcast ==
  /\ gameState.phase = "in-game"
  /\ attackCalls < MaxBroadcasts
  /\ \E coord \in Coordinate :
        /\ gameState' = broadcastAttack(gameState, gameState.currentPlayerTurnId, coord)
        /\ lastAttack' =
             [ called |-> TRUE, attackerId |-> gameState.currentPlayerTurnId,
               targetPlayerId |-> NoSeat, coord |-> coord,
               queued |-> TRUE, result |-> NoResult ]
  /\ gameStateRef' = gameState'
  /\ attackCalls' = attackCalls + 1
  /\ UNCHANGED << pending, appError, aiBoard, placement, trial, isAttackOngoing, aiTurns >>

\* Lines 154-185: one call of advanceTurn.
AdvanceTurnBroadcast ==
  /\ gameState.phase = "in-game"
  /\ gameState' = advanceTurnBounded(gameState)
  /\ gameStateRef' = gameState'
  /\ UNCHANGED << pending, attackCalls, lastAttack, appError, aiBoard, placement, trial,
                  isAttackOngoing, aiTurns >>

\* Combat starts with every fleet stored.
InitBroadcast ==
  /\ gameState \in { StartOf(types) : types \in MultiSeatConfigs }
  /\ gameStateRef = gameState
  /\ pending = 0
  /\ attackCalls = 0
  /\ lastAttack = NoAttack
  /\ appError = FALSE
  /\ aiBoard = NewAiBoard(AiLayouts[1])
  /\ placement = NoPlacement
  /\ trial = NoTrial
  /\ isAttackOngoing = FALSE
  /\ aiTurns = {}

NextBroadcast ==
  \/ HandleAttackBroadcast
  \/ AdvanceTurnBroadcast

SpecBroadcast == InitBroadcast /\ [][NextBroadcast]_vars

\* ------------------------------------------------------------------------
\* The attack updater with the objects it shares with the previous state
\* (GameContext.tsx, lines 55-57 and 83-130)
\* ------------------------------------------------------------------------
\* Line 86 copies the rows of the target's grid, not the cell objects in
\* them, and lines 93 and 121 assign to the status of those objects.  The
\* previous state holds the same objects, so it reads the new statuses
\* after the update; attackedCells and the ships are replaced by fresh
\* objects (lines 96-99, 107-110) and keep their values in the previous
\* state.
PreviousStateAfter(prevGameState, targetPlayerId, newGameState) ==
  [prevGameState EXCEPT
     !.playerBoards[targetPlayerId].cells = newGameState.playerBoards[targetPlayerId].cells]

\* One call of handleAttack by the seat to move, made when the ref holds
\* the state object (the effect of lines 55-57 has run).  The ref keeps
\* pointing at that object, the previous state of the update, until the
\* effect runs again.
HandleAttackShared ==
  /\ ~appError
  /\ gameState.phase = "in-game"
  /\ gameStateRef = gameState
  /\ attackCalls < MaxShots
  /\ \E targetPlayerId \in ActiveIds(gameState) \ {gameState.currentPlayerTurnId},
        coord \in Coordinate, eager \in BOOLEAN :
        LET rejected == AttackRejected(gameStateRef, targetPlayerId, coord)
            updated == AttackUpdater(gameState, targetPlayerId, coord)
        IN /\ gameState' = IF rejected THEN gameState ELSE updated.state
           /\ gameStateRef' =
                IF rejected THEN gameStateRef
                ELSE PreviousStateAfter(gameState, targetPlayerId, updated.state)
           /\ pending' = IF rejected THEN pending ELSE pending + 1
           /\ lastAttack' =
                [ called |-> TRUE, attackerId |-> gameState.currentPlayerTurnId,
                  targetPlayerId |-> targetPlayerId, coord |-> coord,
                  queued |-> ~rejected,
                  result |-> IF rejected \/ ~eager THEN NoResult ELSE updated.result ]
  /\ attackCalls' = attackCalls + 1
  /\ UNCHANGED << appError, aiBoard, placement, trial, isAttackOngoing, aiTurns >>

\* Combat starts with every fleet stored.
InitShared ==
  /\ gameState \in { StartOf(types) : types \in MultiSeatConfigs }
  /\ gameStateRef = gameState
  /\ pending = 0
  /\ attackCalls = 0
  /\ lastAttack = NoAttack
  /\ appError = FALSE
  /\ aiBoard = NewAiBoard(AiLayouts[1])
  /\ placement = NoPlacement
  /\ trial = NoTrial
  /\ isAttackOngoing = FALSE
  /\ aiTurns = {}

NextShared ==
  \/ HandleAttackShared
  \/ RefreshRef
  \/ AdvanceTurn

SpecShared == InitShared /\ [][NextShared]_vars

\* ------------------------------------------------------------------------
\* Provider that builds the grid with placeShipOnBoard
\* (GameContext.tsx, lines 759-937, with placeShipOnBoard of
\* src/unnamed/part_004, lines 369-400, and the placement screen of
\* ShipPlacement.tsx, lines 468-519)
\* ------------------------------------------------------------------------
\* Lines 917-925: the grid setPlayerBoardShips builds, placeShipOnBoard
\* applied for each ship of the list to the grid built so far, from the
\* empty grid on.
RECURSIVE PlaceShipsOnBoard(_, _)
PlaceShipsOnBoard(currentCells, ships) ==
  IF ships = << >> THEN currentCells
  ELSE PlaceShipsOnBoard(
         placeShipOnBoard(currentCells, Head(ships).definition, Head(ships).start,
                          Head(ships).orientation),
         Tail(ships))

\* Lines 913-934: the updater of setPlayerBoardShips.
setPlayerBoardShipsByCells(prev, playerId, ships) ==
  IF ~HasBoard(prev, playerId) THEN prev
  ELSE [prev EXCEPT
          !.playerBoards[playerId] =
             [@ EXCEPT !.placedShips = ships,
                       !.cells = PlaceShipsOnBoard(createEmptyBoard, ships)]]

\* Lines 760-774: the updater of advancePhase; entering in-game sets the
\* turn only when no seat holds it.
advancePhaseKeepingTurn(prev, newPhase) ==
  [prev EXCEPT !.phase = newPhase,
               !.currentPlayerTurnId =
                  IF newPhase = "in-game" /\ @ = NoSeat
                    THEN FirstActiveId(prev.players) ELSE @]

\* ShipPlacement.tsx 492-502: the first active seat after the current one,
\* the current one last, whose board lacks a ship; NoSeat when every seat
\* is ready.
RECURSIVE NextSeatToPlace(_, _, _, _)
NextSeatToPlace(gs, activePlayers, currentPlayerIndex, i) ==
  IF i >= Len(activePlayers) THEN NoSeat
  ELSE LET player == activePlayers[((currentPlayerIndex + 1 + i) % Len(activePlayers)) + 1]
       IN IF \/ ~HasBoard(gs, player.id)
             \/ Len(gs.playerBoards[player.id].placedShips) < Len(ALL_SHIPS)
            THEN player.id
            ELSE NextSeatToPlace(gs, activePlayers, currentPlayerIndex, i + 1)

\* The placement screen hands the ships of the seat to place to the
\* provider.
SetPlayerBoardShipsByCells ==
  /\ gameState.phase = "ship-placement"
  /\ \E ships \in PlacementInputs(gameState.currentPlayerTurnId) :
        gameState' = setPlayerBoardShipsByCells(gameState, gameState.currentPlayerTurnId, ships)
  /\ gameStateRef' = gameState'
  /\ UNCHANGED << pending, attackCalls, lastAttack, appError, aiBoard, placement, trial,
                  isAttackOngoing, aiTurns >>

\* ShipPlacement.tsx 468-519: the screen moves on to the next seat or, with
\* every seat's list complete, starts the game.  A human seat moves on only
\* with its list complete.
HandleNextPlayerOrGameStart ==
  /\ gameState.phase = "ship-placement"
  /\ HasBoard(gameState, gameState.currentPlayerTurnId)
  /\ LET seat == gameState.currentPlayerTurnId
         activePlayers == ActivePlayers(gameState)
         nextPlayerIdToSet ==
           NextSeatToPlace(gameState, activePlayers, FindIndex(activePlayers, seat), 0)
     IN /\ gameState.players[seat + 1].type = "human"
             => Len(gameState.playerBoards[seat].placedShips) = Len(ALL_SHIPS)
        /\ gameState' =
             IF nextPlayerIdToSet = NoSeat
               THEN advancePhaseKeepingTurn(gameState, "in-game")
               ELSE [gameState EXCEPT !.currentPlayerTurnId = nextPlayerIdToSet]
  /\ gameStateRef' = gameState'
  /\ UNCHANGED << pending, attackCalls, lastAttack, appError, aiBoard, placement, trial,
                  isAttackOngoing, aiTurns >>

\* The placement screen has just opened.
InitFleet ==
  /\ gameState \in { handleStartPlacement(updatePlayers(InitialGameState, MakePlayers(types))) :
                       types \in MultiSeatConfigs }
  /\ gameStateRef = gameState
  /\ pending = 0
  /\ attackCalls = 0
  /\ lastAttack = NoAttack
  /\ appError = FALSE
  /\ aiBoard = NewAiBoard(AiLayouts[1])
  /\ placement = NoPlacement
  /\ trial = NoTrial
  /\ isAttackOngoing = FALSE
  /\ aiTurns = {}

NextFleet ==
  \/ SetPlayerBoardShipsByCells
  \/ HandleNextPlayerOrGameStart
  \/ HandleAttackRecorded
  \/ AdvanceTurnRecorded

SpecFleet == InitFleet /\ [][NextFleet]_vars

\* ------------------------------------------------------------------------
\* Properties
\* ------------------------------------------------------------------------
\* A step that is one call of handleAttack.
IsAttackCall == attackCalls' = attackCalls + 1

CombatStarted == gameState.phase \in {"in-game", "game-over"}

\* C1: across any call of handleAttack the status of a cell only moves
\* forward: a cell that is hit or sunk does not become miss, a sunk cell does
\* not become hit, and a miss cell keeps its status.
C1_StatusOnlyMovesForward ==
  [][ IsAttackCall =>
        \A p \in DOMAIN gameState.playerBoards : \A c \in Coordinate :
           LET before == gameState.playerBoards[p].cells[c].status
               after == gameState'.playerBoards[p].cells[c].status
           IN /\ (before \in {"hit", "sunk"}) => (after # "miss")
              /\ (before = "sunk") => (after # "hit")
              /\ (before = "miss") => (after = "miss") ]_vars

\* C2: a call of handleAttack with the attacker, target and coordinate of the
\* call before it returns an outcome marked as already attacked and leaves
\* the boards, the phase and the winner as they were.
C2_RepeatedCallIsMarkedNoOp ==
  [][ ( /\ IsAttackCall
        /\ lastAttack.called
        /\ lastAttack'.attackerId = lastAttack.attackerId
        /\ lastAttack'.targetPlayerId = lastAttack.targetPlayerId
        /\ lastAttack'.coord = lastAttack.coord )
      => /\ lastAttack'.result.alreadyAttacked
         /\ gameState'.playerBoards = gameState.playerBoards
         /\ gameState'.phase = gameState.phase
         /\ gameState'.winnerId = gameState.winnerId ]_vars

\* C3: of two calls of handleAttack for the same cell made before
\* gameStateRef is refreshed, at most one resolves the shot: when the first
\* queued its update, the second queues none.
C3_CheckAndUpdateAtomic ==
  [][ ( /\ IsAttackCall
        /\ lastAttack.called
        /\ lastAttack.queued
        /\ pending >= 1
        /\ lastAttack'.targetPlayerId = lastAttack.targetPlayerId
        /\ lastAttack'.coord = lastAttack.coord )
      => ~lastAttack'.queued ]_vars

HitSet(ship) == { ship.hits[i] : i \in 1 .. Len(ship.hits) }

\* C7: a ship is marked sunk exactly when the set of its hit coordinates is
\* the set of the coordinates it occupies.
C7_SunkIffAllCoordsHit ==
  \A p \in DOMAIN gameState.playerBoards :
    \A k \in 1 .. Len(gameState.playerBoards[p].placedShips) :
       LET ship == gameState.playerBoards[p].placedShips[k]
       IN ship.isSunk <=> (HitSet(ship) = ShipCoords(ship))

\* On one board a ship of two cells is sunk and another ship has no hit.
C7_Witness ==
  \E p \in DOMAIN gameState.playerBoards :
    \E k, j \in 1 .. Len(gameState.playerBoards[p].placedShips) :
       LET ship == gameState.playerBoards[p].placedShips[k]
           other == gameState.playerBoards[p].placedShips[j]
       IN /\ ship.isSunk
          /\ ship.definition.size = 2
          /\ HitSet(ship) = ShipCoords(ship)
          /\ ~other.isSunk

\* C8: the call of handleAttack whose shot hits the last unhit coordinate of
\* a ship returns that ship's id as sunkShipId, and after the call every
\* cell of the ship, the one just fired at included, has status sunk.
C8_LastHitReportsAndMarksSunk ==
  [][ IsAttackCall =>
        \A p \in DOMAIN gameState.playerBoards :
          \A k \in 1 .. Len(gameState.playerBoards[p].placedShips) :
             LET before == gameState.playerBoards[p].placedShips[k]
                 after == gameState'.playerBoards[p].placedShips[k]
             IN (~before.isSunk /\ after.isSunk)
                  => /\ lastAttack'.result.sunkShipId = after.id
                     /\ \A c \in ShipCoords(after) :
                           gameState'.playerBoards[p].cells[c].status = "sunk" ]_vars

\* C9: once the phase is game-over, a call of advanceTurn completes and
\* leaves the whole game state, currentPlayerTurnId included, as it was.
\* (In the game-over phase the steps that are neither a call of handleAttack
\* nor resetGame are the calls of advanceTurn and the ref effect.)
C9_AdvanceTurnNoOpAtGameOver ==
  [][ ( /\ gameState.phase = "game-over"
        /\ gameState'.phase = "game-over"
        /\ ~IsAttackCall )
      => (gameState' = gameState /\ appError' = appError) ]_vars

\* The cells of a board that are already resolved.
ResolvedCells(board) ==
  { c \in AiCoordinate : board.cells[c].status \in {"hit", "miss", "sunk"} }

TrialShip == PlacedShip(trial.shipDef, trial.start, trial.orientation)

\* C11: a ship returned by placeShipRandomly or by
\* generateRandomShipPlacement lies entirely on the grid and shares no
\* coordinate with a ship of the list the generator was given, whatever was
\* drawn.
C11_RandomShipOnGridAndClear ==
  (trial.applied \in {"placeShipRandomly", "generateRandomShipPlacement"}
     /\ trial.result # << >>)
    => OnGridAndClear(trial.result[1], trial.existing)

\* C11 witness: placeShipRandomly returned a ship next to an already placed
\* one.
C11_Witness ==
  /\ trial.applied = "placeShipRandomly"
  /\ trial.result # << >>
  /\ trial.existing # << >>

C13_PlacedShipsOnGridAndDisjoint ==
  \A p \in DOMAIN gameState.playerBoards :
     LET placedShips == gameState.playerBoards[p].placedShips
     IN \A k \in 1 .. Len(placedShips) :
           OnGridAndClear(placedShips[k], SubSeq(placedShips, 1, k - 1))

\* The ships of a board that are not sunk.
Unsunk(board) ==
  { k \in 1 .. Len(board.placedShips) : ~board.placedShips[k].isSunk }

\* The cells of a board that are orthogonal neighbours of c, on the grid and
\* unresolved.
OpenNeighbours(board, c) ==
  { n \in AiCoordinate :
      /\ (n.x = c.x /\ (n.y = c.y - 1 \/ n.y = c.y + 1))
           \/ (n.y = c.y /\ (n.x = c.x - 1 \/ n.x = c.x + 1))
      /\ board.cells[n].status \in {"empty", "ship"} }

\* The hit cells of ships that are not sunk.
LiveHits(board) ==
  { c \in AiCoordinate :
      /\ board.cells[c].status = "hit"
      /\ \E k \in Unsunk(board) : c \in ShipCoords(board.placedShips[k]) }

\* An exploitable hit: a hit cell of an unsunk ship with an unresolved
\* neighbour on the grid.
ExploitableHits(board) == { c \in LiveHits(board) : OpenNeighbours(board, c) # {} }

HitRun(ship) == { ship.hits[i] : i \in 1 .. Len(ship.hits) }

IsContiguousRun(ship) ==
  LET xs == { h.x : h \in HitRun(ship) }
      ys == { h.y : h \in HitRun(ship) }
  IN /\ Len(ship.hits) >= 2
     /\ Cardinality(HitRun(ship)) = Len(ship.hits)
     /\ \/ Cardinality(ys) = 1 /\ MaxOf(xs) - MinOf(xs) + 1 = Len(ship.hits)
        \/ Cardinality(xs) = 1 /\ MaxOf(ys) - MinOf(ys) + 1 = Len(ship.hits)

\* The unresolved cells on the grid that extend the hit run of a ship along
\* its axis: same row for a horizontal run, same column for a vertical one.
RunExtensions(board, ship) ==
  LET xs == { h.x : h \in HitRun(ship) }
      ys == { h.y : h \in HitRun(ship) }
      ends ==
        IF Cardinality(ys) = 1
          THEN { [x |-> MinOf(xs) - 1, y |-> MinOf(ys)], [x |-> MaxOf(xs) + 1, y |-> MinOf(ys)] }
          ELSE { [x |-> MinOf(xs), y |-> MinOf(ys) - 1], [x |-> MinOf(xs), y |-> MaxOf(ys) + 1] }
  IN { e \in ends \cap AiCoordinate : board.cells[e].status \in {"empty", "ship"} }

\* The unsunk ships with a run of two or more hits that can be extended.
ExtendableShips(board) ==
  { k \in Unsunk(board) :
      /\ IsContiguousRun(board.placedShips[k])
      /\ RunExtensions(board, board.placedShips[k]) # {} }

\* C16: on hard difficulty, when an unsunk ship has a run of two or more
\* hits with an unresolved cell on the grid at one of its two ends, the
\* returned coordinate is such an end cell.
C16_HardExtendsHitRun ==
  ExtendableShips(aiBoard) # {}
    => \A attackCoord \in AiChoices("hard", aiBoard) :
          \E k \in ExtendableShips(aiBoard) :
             attackCoord \in RunExtensions(aiBoard, aiBoard.placedShips[k])

\* The placements of a ship class that lie entirely on unresolved cells of
\* the grid and cover the cell c, over both orientations and every anchor.
OpenPlacementsOver(board, shipDef, c) ==
  { pl \in AiCoordinate \X {"horizontal", "vertical"} :
      LET cells == ShipCoords(PlacedShip(shipDef, pl[1], pl[2]))
      IN /\ cells \subseteq AiCoordinate
         /\ c \in cells
         /\ \A d \in cells : board.cells[d].status \in {"empty", "ship"} }

\* The count of covering placements of a cell over the remaining classes.
RECURSIVE PlacementCount(_, _, _)
PlacementCount(board, shipDefs, c) ==
  IF shipDefs = << >> THEN 0
  ELSE Cardinality(OpenPlacementsOver(board, Head(shipDefs), c))
         + PlacementCount(board, Tail(shipDefs), c)

\* C17: on hard difficulty with no exploitable hit, the returned coordinate
\* is an unresolved cell whose count of covering placements is the largest
\* count of any unresolved cell.
C17_HardHuntsMostCoveredCell ==
  (ExploitableHits(aiBoard) = {} /\ availableCells(aiBoard) # {})
    => LET remaining == getRemainingShipDefinitions(aiBoard)
       IN \A attackCoord \in AiChoices("hard", aiBoard) :
             /\ attackCoord \in availableCells(aiBoard)
             /\ \A c \in availableCells(aiBoard) :
                   PlacementCount(aiBoard, remaining, attackCoord)
                     >= PlacementCount(aiBoard, remaining, c)

\* C17 witness: cells are resolved, no hit is exploitable, an unresolved cell
\* is covered by fewer placements than another, and hard difficulty answers.
C17_Witness ==
  /\ ExploitableHits(aiBoard) = {}
  /\ ResolvedCells(aiBoard) # {}
  /\ \E c, d \in availableCells(aiBoard) :
        PlacementCount(aiBoard, getRemainingShipDefinitions(aiBoard), c)
          < PlacementCount(aiBoard, getRemainingShipDefinitions(aiBoard), d)
  /\ AiChoices("hard", aiBoard) # {NoCoord}

C19_SunkStaysSunk ==
  [][ (CombatStarted /\ gameState'.phase \in {"in-game", "game-over"})
      => \A p \in DOMAIN gameState.playerBoards :
           \A k \in 1 .. Len(gameState.playerBoards[p].placedShips) :
              gameState.playerBoards[p].placedShips[k].isSunk
                => /\ p \in DOMAIN gameState'.playerBoards
                   /\ k <= Len(gameState'.playerBoards[p].placedShips)
                   /\ gameState'.playerBoards[p].placedShips[k].isSunk ]_vars

\* A sunk ship was attacked again: one of its cells, sunk with the ship,
\* carries the status of the later shot, and the ship is still sunk.
C19_Witness ==
  /\ gameState.phase = "in-game"
  /\ \E p \in DOMAIN gameState.playerBoards :
       \E k \in 1 .. Len(gameState.playerBoards[p].placedShips) :
          LET ship == gameState.playerBoards[p].placedShips[k]
          IN /\ ship.isSunk
             /\ \E i \in 0 .. ship.definition.size - 1 :
                  gameState.playerBoards[p].cells[ShipCell(ship, i)].status = "miss"

\* C20: no call of handleAttack made by the game screen, from the click
\* handler or from the AI driver, names the attacker's own seat as target.
C20_NeverAttacksOwnBoard ==
  [][ IsAttackCall => lastAttack'.targetPlayerId # lastAttack'.attackerId ]_vars

\* C21: outside the select-players phase the number of active seats lies
\* between two and four: placement and combat never begin with zero or one
\* active seat.
C21_LeavesSelectionWithTwoToFour ==
  (gameState.phase # "select-players")
    => Cardinality(ActiveIds(gameState)) \in 2 .. NumPlayers

\* C22: within a game the winner and the step of the phase to game-over are
\* written by the update of handleAttack only: whenever winnerId changes or
\* the phase becomes game-over, the step is a call of handleAttack that
\* queued its update, and the winner and the phase are the ones that update
\* computes.
C22_OnlyHandleAttackDecides ==
  [][ ( /\ gameState'.phase # "select-players"
        /\ \/ gameState'.winnerId # gameState.winnerId
           \/ (gameState'.phase = "game-over" /\ gameState.phase # "game-over") )
      => /\ IsAttackCall
         /\ lastAttack'.queued
         /\ LET resolved == AttackUpdater(gameState, lastAttack'.targetPlayerId,
                                          lastAttack'.coord).state
            IN /\ gameState'.winnerId = resolved.winnerId
               /\ gameState'.phase = resolved.phase ]_vars

\* The first seat after the current one, in the order of the players list
\* and wrapping around, that has an unsunk ship; the current seat when no
\* seat has one.
NextLivingSeat(gs) ==
  LET act == ActivePlayers(gs)
      n == Len(act)
      from == FindIndex(act, gs.currentPlayerTurnId)
      seatAt(k) == act[((from + k) % n) + 1].id
      living == { k \in 1 .. n : seatAt(k) \in LivingSeats(gs) }
  IN IF living = {} THEN gs.currentPlayerTurnId
     ELSE seatAt(CHOOSE k \in living : \A j \in living : k <= j)

\* C23: a call of advanceTurn during combat completes and sets the current
\* seat to the first seat after it, in the fixed order of the players list
\* and wrapping around, that has an unsunk ship; and no step of combat
\* changes the players list.
C23_AdvanceTurnPicksNextLiving ==
  [][ /\ (AdvanceTurn /\ gameState.phase = "in-game")
          => /\ ~appError'
             /\ gameState'.currentPlayerTurnId = NextLivingSeat(gameState)
      /\ (CombatStarted /\ gameState'.phase # "select-players")
          => gameState'.players = gameState.players ]_vars

\* C24: every attack resolved during combat is aimed at a living opponent:
\* the target of a call of handleAttack that queues its update is an active
\* seat other than the attacker with at least one unsunk ship.
C24_TargetIsLivingOpponent ==
  [][ (IsAttackCall /\ gameState.phase = "in-game" /\ lastAttack'.queued)
      => /\ lastAttack'.targetPlayerId # lastAttack'.attackerId
         /\ lastAttack'.targetPlayerId \in LivingSeats(gameState) ]_vars


\* C26: after a resolved attack that leaves the game in progress the screen
\* has exactly one advanceTurn call outstanding (the flag is up and no
\* further attack is made until the call has run), and advanceTurn is never
\* called once an attack has concluded the game.
C26_AdvanceOnceUnlessConcluded ==
  [][ /\ IsAttackCall => ~isAttackOngoing
      /\ (IsAttackCall /\ lastAttack'.queued /\ gameState'.phase = "in-game")
           => isAttackOngoing'
      /\ TurnTimer => gameState.phase # "game-over" ]_vars


\* C25: combat proceeds until the game is over: while the phase is in-game
\* the application is running, so a further turn can be taken; no run ends
\* in a state where the game is still in progress.
C25_CombatNeverStalls ==
  (gameState.phase = "in-game") => ~appError


\* C29: a handleAttack call made when the phase is game-over changes no
\* board, nor the winner, nor the phase.
C29_NoShotAbsorbedAfterGameOver ==
  [][ (IsAttackCall /\ gameState.phase = "game-over")
      => /\ gameState'.playerBoards = gameState.playerBoards
         /\ gameState'.winnerId = gameState.winnerId
         /\ gameState'.phase = gameState.phase ]_vars


\* C30: a handleAttack call changes no board but the target's: the board of
\* every other seat, the attacker's included, the seats and
\* currentPlayerTurnId are as before the call.
C30_OnlyTargetBoardChanges ==
  [][ IsAttackCall
      => /\ gameState'.currentPlayerTurnId = gameState.currentPlayerTurnId
         /\ gameState'.players = gameState.players
         /\ DOMAIN gameState'.playerBoards = DOMAIN gameState.playerBoards
         /\ \A p \in DOMAIN gameState.playerBoards \ {lastAttack'.targetPlayerId} :
              gameState'.playerBoards[p] = gameState.playerBoards[p] ]_vars


\* C27: every attack resolved is issued by the seat named by
\* currentPlayerTurnId, and none is resolved while an earlier attack still
\* waits for its turn to be advanced (the flag set, or the timer of an AI
\* shot pending).
C27_OneAttackPerTurnByCurrentSeat ==
  [][ (IsAttackCall /\ lastAttack'.queued)
      => /\ lastAttack'.attackerId = gameState.currentPlayerTurnId
         /\ ~isAttackOngoing
         /\ \A t \in aiTurns : t.pc # "timer" ]_vars


\* C28: an AI turn whose thinking delay ends when the phase is no longer
\* in-game resolves no attack and arms no timer to advance the turn: the
\* game state is left as it was.
C28_PendingAiTurnDropped ==
  [][ (AiAttack010 /\ gameState.phase # "in-game")
      => /\ gameState' = gameState
         /\ ~IsAttackCall
         /\ Cardinality({ t \in aiTurns' : t.pc = "timer" })
              <= Cardinality({ t \in aiTurns : t.pc = "timer" }) ]_vars


\* C31: whether a handleAttack call is absorbed depends only on the status
\* of the targeted cell on the target's board: a call at a cell that is
\* hit, miss or sunk leaves the game state as it is, and a call at any other
\* cell resolves that cell, whatever the attacker fired at before.
C31_ResolvedByTargetCellOnly ==
  [][ IsAttackCall
      => LET before == gameState.playerBoards[lastAttack'.targetPlayerId]
                         .cells[lastAttack'.coord].status
             after == gameState'.playerBoards[lastAttack'.targetPlayerId]
                        .cells[lastAttack'.coord].status
         IN IF before \in {"hit", "miss", "sunk"}
              THEN gameState' = gameState
              ELSE after \in {"hit", "miss", "sunk"} ]_vars


\* C32: the AttackResult a handleAttack call returns tells what the call
\* did to the state: hit exactly when the targeted cell held a ship segment
\* not yet hit, sunkShipId exactly when the shot sank a ship, isGameOver
\* exactly when the call moved the phase to game-over.
C32_ResultAgreesWithStateChange ==
  [][ IsAttackCall
      => LET target == lastAttack'.targetPlayerId
             before == gameState.playerBoards[target]
             after == gameState'.playerBoards[target]
             sunkNow == { k \in 1 .. Len(before.placedShips) :
                            ~before.placedShips[k].isSunk /\ after.placedShips[k].isSunk }
             result == lastAttack'.result
         IN /\ result.hit <=> ( /\ gameState' # gameState
                                /\ before.cells[lastAttack'.coord].status = "ship" )
            /\ (result.sunkShipId # Undefined) <=> (sunkNow # {})
            /\ \A k \in sunkNow : result.sunkShipId = before.placedShips[k].id
            /\ result.isGameOver <=> ( /\ gameState.phase # "game-over"
                                       /\ gameState'.phase = "game-over" ) ]_vars

\* C33: during ship placement the placement turn starts at the first active
\* seat, and every active seat has had the placement turn by the time the
\* phase is in-game.
C33_EverySeatGetsPlacementTurn ==
  /\ (gameState.phase = "ship-placement" /\ placement.turns # {})
        => FirstActiveId(gameState.players) \in placement.turns
  /\ gameState.phase = "in-game" => ActiveIds(gameState) \subseteq placement.turns

\* The ships of a board are the complete fleet: one placed ship per entry
\* of ALL_SHIPS, with that entry's id and size.
HoldsCompleteFleet(board) ==
  /\ Len(board.placedShips) = Len(ALL_SHIPS)
  /\ \A k \in 1 .. Len(ALL_SHIPS) :
        /\ board.placedShips[k].id = ALL_SHIPS[k].id
        /\ board.placedShips[k].definition.size = ALL_SHIPS[k].size
        /\ board.placedShips[k].start.x # -1

\* C34: whenever the phase is in-game, the board of every active seat holds
\* the complete fleet.
C34_CombatOnlyWithCompleteFleets ==
  gameState.phase = "in-game"
    => \A p \in ActiveIds(gameState) :
          HasBoard(gameState, p) /\ HoldsCompleteFleet(gameState.playerBoards[p])

\* C35: a call of advanceTurn in an in-game state completes normally: it
\* raises no error (and, the updater being a bounded computation in the
\* model, it returns a state).
C35_AdvanceTurnCompletes ==
  [][ (gameState.phase = "in-game" /\ AdvanceTurn) => ~appError' ]_vars

\* What an attacker can see of a board: per coordinate hit, miss or sunk,
\* and unresolved for a cell not fired upon.
Observable(board) ==
  [c \in AiCoordinate |->
     IF board.cells[c].status \in {"hit", "miss", "sunk"}
       THEN board.cells[c].status ELSE "unresolved"]

\* The cells of a board that have been fired upon.
Fired(board) == { c \in AiCoordinate : board.cells[c].status \in {"hit", "miss", "sunk"} }

\* The boards the given cells, fired in any order, leave of a board.
RECURSIVE Replays(_, _)
Replays(board, cells) ==
  IF cells = {} THEN { board }
  ELSE UNION { Replays(ApplyAttack(board, c).board, cells \ {c}) : c \in cells }

\* The boards compared are those with at most this many cells fired upon.
MaxReplay == 4

\* C36: two boards that agree on the observable cell statuses and on the
\* remaining ship classes yield, for every difficulty, the same set of
\* coordinates getAiAttackCoordinate may return, whatever ships lie under
\* the cells and in whatever order the cells were fired upon.
C36_CandidatesDependOnObservablesOnly ==
  Cardinality(Fired(aiBoard)) <= MaxReplay
    => \A layout \in AllAiLayouts :
          \A other \in Replays(NewAiBoard(layout), Fired(aiBoard)) :
             ( /\ Observable(other) = Observable(aiBoard)
               /\ getRemainingShipDefinitions(other) = getRemainingShipDefinitions(aiBoard) )
               => \A difficulty \in Difficulties :
                     AiChoices(difficulty, other) = AiChoices(difficulty, aiBoard)

\* The board a single-target handleAttack at the coordinate leaves of a
\* target: unchanged when the board's attackedCells holds the coordinate,
\* else as the single-target updater resolves it.
SingleTargetBoard(gs, targetPlayerId, coord) ==
  IF AttackRejected(gs, targetPlayerId, coord)
    THEN gs.playerBoards[targetPlayerId]
    ELSE ApplyAttack(gs.playerBoards[targetPlayerId], coord).board

\* C37: a call of the broadcast handleAttack changes the board of every
\* opponent with an unsunk ship exactly as the single-target resolution of
\* the coordinate against that opponent would, and changes no other board:
\* not the attacker's, and not that of a seat whose ships are all sunk.
C37_BroadcastIsSingleTargetPerLivingOpponent ==
  [][ HandleAttackBroadcast
      => \A p \in DOMAIN gameState.playerBoards :
            gameState'.playerBoards[p] =
              IF /\ p \in ActiveIds(gameState) \ {lastAttack'.attackerId}
                 /\ ~checkAllShipsSunk(gameState.playerBoards[p])
                THEN SingleTargetBoard(gameState, p, lastAttack'.coord)
                ELSE gameState.playerBoards[p] ]_vars

\* C38: the updater of handleAttack leaves the previous state as it was -
\* the state object the update started from reads after the update as it
\* read before - so that the same update applied to it once more yields the
\* same resulting state.
C38_UpdaterLeavesPreviousState ==
  [][ (HandleAttackShared /\ lastAttack'.queued)
      => /\ gameStateRef' = gameState
         /\ AttackUpdater(gameStateRef', lastAttack'.targetPlayerId,
                          lastAttack'.coord).state = gameState' ]_vars

\* The placed ships of a board that occupy a coordinate.
Occupying(board, c) ==
  { k \in 1 .. Len(board.placedShips) :
      /\ board.placedShips[k].start.x # -1
      /\ c \in ShipCoords(board.placedShips[k]) }

\* C39: on every board the grid and the ship list agree: a cell a placed
\* ship occupies has status ship, hit or sunk and carries the id of a ship
\* occupying it; every other cell is empty or miss and the seat of no ship.
\* In particular this holds of the board setPlayerBoardShips has written.
C39_GridAgreesWithShips ==
  \A p \in DOMAIN gameState.playerBoards :
     LET board == gameState.playerBoards[p]
     IN \A c \in Coordinate :
           IF Occupying(board, c) # {}
             THEN /\ board.cells[c].status \in {"ship", "hit", "sunk"}
                  /\ \E k \in Occupying(board, c) :
                        board.cells[c].shipId = board.placedShips[k].id
             ELSE board.cells[c].status \in {"empty", "miss"}

====
